---------------------------- MODULE Spec2Model ----------------------------
(***************************************************************************)
(* Model of the wormhole-game simulation core: Ship, the attack            *)
(* translation table, and the Mine and Nuke hazards.                       *)
(*                                                                         *)
(* Numbers.  The program computes with IEEE doubles.  Lengths (positions,  *)
(* velocities, radii) are modelled in hundredths of a pixel, and scalar    *)
(* factors (drag, thrust, boost, cos, sin, Math.random) in thousandths;    *)
(* a product is truncated toward zero.  A ship angle is the number of      *)
(* SHIP_ROTATION_SPEED steps away from the constructor's -PI/2.            *)
(***************************************************************************)
EXTENDS Integers, Sequences, FiniteSets

\* ------------------------------------------------------------ bounds
MaxTicks == 2           \* physics steps explored per flight
MaxCargoLen == 5        \* longest free-form cargo handed to the attack table
MaxGoldRun == 8         \* longest run of gold orbs put in front of it
MaxSeed == 1            \* Math.random streams tried: 0 .. MaxSeed

\* --------------------------------------------------------- constants
WORLD_WIDTH == 1200
WORLD_HEIGHT == 800
SHIP_THRUST == 120             \* 0.12, in thousandths
SHIP_DRAG == 992               \* 0.992, in thousandths
SHIP_MAX_SPEED == 5
MAX_CARGO_SLOTS == 4
MAX_LIVES == 3
INVULNERABILITY_TIME == 3 * 60
SHIP_COLLISION_RADIUS == 15
WORMHOLE_RADIUS == 80
WORMHOLE_BANKING_RADIUS == 120
ORB_RADIUS == 12
\* AttackTier, in tenths
TIER_1 == 10
TIER_1_5 == 15
TIER_2 == 20
TIER_3 == 30
TIER_4 == 40

RED == "red"
BLUE == "blue"
GREEN == "green"
GOLD == "gold"
OrbType == {RED, BLUE, GREEN, GOLD}
None == "none"                 \* an empty cargo slot (null)

\* ------------------------------------------------------ number helpers
Px(n) == n * 100               \* pixels to hundredths of a pixel
Abs(a) == IF a < 0 THEN -a ELSE a
Max(a, b) == IF a >= b THEN a ELSE b
Min(a, b) == IF a <= b THEN a ELSE b
\* a * num / den, truncated toward zero
MulDiv(a, num, den) ==
  IF a * num >= 0 THEN (a * num) \div den ELSE -((-(a * num)) \div den)

RECURSIVE SqrtSearch(_, _, _)
SqrtSearch(n, lo, hi) ==
  IF lo >= hi THEN lo
  ELSE LET mid == (lo + hi + 1) \div 2
       IN IF mid * mid <= n THEN SqrtSearch(n, mid, hi)
          ELSE SqrtSearch(n, lo, mid - 1)
\* Math.sqrt on a squared length, truncated
Sqrt(n) == SqrtSearch(n, 0, 46340)

\* ---------------------------------------------------------------- Vec2
Vec2(x, y) == [x |-> x, y |-> y]
Vec2_zero == Vec2(0, 0)
Vec2_add(a, b) == Vec2(a.x + b.x, a.y + b.y)
Vec2_sub(a, b) == Vec2(a.x - b.x, a.y - b.y)
\* mul by a scalar given in thousandths
Vec2_mul(a, s) == Vec2(MulDiv(a.x, s, 1000), MulDiv(a.y, s, 1000))
Vec2_length(a) == Sqrt(a.x * a.x + a.y * a.y)
\* normalize().mul(maxLength) of clamp(), for a length in hundredths
Vec2_clamp(a, maxLength) ==
  LET len == Vec2_length(a)
  IN IF len > maxLength
       THEN Vec2(MulDiv(a.x, maxLength, len), MulDiv(a.y, maxLength, len))
       ELSE a
\* a.sub(b).length() <= r, with r >= 0 in hundredths (at most 463 px)
DistLE(a, b, r) ==
  LET dx == Abs(a.x - b.x)
      dy == Abs(a.y - b.y)
  IN dx <= r /\ dy <= r /\ dx * dx <= r * r - dy * dy
\* a.sub(b).length() < r
DistLT(a, b, r) ==
  LET dx == Abs(a.x - b.x)
      dy == Abs(a.y - b.y)
  IN dx <= r /\ dy <= r /\ dx * dx < r * r - dy * dy

\* cos and sin of -PI/2 + 0.06 * k in thousandths, for k = AngleMin .. 88
AngleMin == 0 - 8
CosTab == <<
    -462, -408, -352, -296, -238, -179, -120, -60, 0, 60, 120, 179, 238, 296,
    352, 408, 462, 514, 565, 613, 659, 703, 745, 783, 819, 852, 882, 909,
    932, 952, 969, 982, 991, 997, 1000, 999, 994, 986, 974, 958, 940, 917,
    892, 863, 831, 797, 759, 718, 675, 630, 582, 533, 481, 427, 372, 316,
    259, 200, 141, 82, 22, -38, -98, -158, -217, -275, -332, -388, -443,
    -495, -547, -596, -643, -688, -730, -770, -807, -841, -872, -899, -924,
    -945, -963, -978, -988, -996, -999, -1000, -996, -989, -979, -964, -947,
    -926, -901, -874, -843 >>
SinTab == <<
    -887, -913, -936, -955, -971, -984, -993, -998, -1000, -998, -993, -984,
    -971, -955, -936, -913, -887, -858, -825, -790, -752, -711, -667, -622,
    -574, -523, -471, -418, -362, -306, -248, -190, -130, -71, -11, 49, 109,
    168, 227, 285, 342, 398, 452, 505, 556, 605, 651, 696, 737, 777, 813,
    846, 877, 904, 928, 949, 966, 980, 990, 997, 1000, 999, 995, 987, 976,
    961, 943, 922, 897, 869, 837, 803, 766, 726, 683, 638, 591, 542, 490,
    437, 382, 326, 269, 211, 152, 92, 32, -28, -87, -147, -206, -264, -322,
    -378, -433, -486, -538 >>
\* Math.sin of an angle in thousandths of a radian, in thousandths
SinMilli(a) ==
  LET r0 == a % 6283
      r1 == IF r0 > 3142 THEN r0 - 6283 ELSE r0
      x == IF r1 > 1571 THEN 3142 - r1 ELSE IF r1 < -1571 THEN -3142 - r1 ELSE r1
      x2 == (x * x) \div 1000
      t3 == MulDiv(x, x2, 6000)
      t5 == MulDiv(t3, x2, 20000)
      t7 == MulDiv(t5, x2, 42000)
  IN Max(-1000, Min(1000, x - t3 + t5 - t7))
\* Math.cos, likewise
CosMilli(a) == SinMilli(a + 1571)

\* Math.atan of a ratio z in 0 .. 1000 (thousandths), in thousandths of a radian
AtanUnit(z) == (z * (785 + (273 * (1000 - z)) \div 1000)) \div 1000
\* Math.atan2(y, x), in thousandths of a radian within -3142 .. 3142
Atan2Milli(y, x) ==
  LET ax == Abs(x)
      ay == Abs(y)
      a == IF ax = 0 /\ ay = 0 THEN 0
           ELSE IF ay <= ax THEN AtanUnit(MulDiv(ay, 1000, ax))
           ELSE 1571 - AtanUnit(MulDiv(ax, 1000, ay))
  IN IF x >= 0 THEN (IF y >= 0 THEN a ELSE -a)
     ELSE (IF y >= 0 THEN 3142 - a ELSE -(3142 - a))

\* a.sub(b).length(), truncated; to 4 hundredths when the vector is longer than 327 px
Distance(a, b) ==
  LET dx == Abs(a.x - b.x)
      dy == Abs(a.y - b.y)
  IN IF dx <= 32767 /\ dy <= 32767 THEN Sqrt(dx * dx + dy * dy)
     ELSE 4 * Sqrt((dx \div 4) * (dx \div 4) + (dy \div 4) * (dy \div 4))
\* normalize(): a unit vector in thousandths
Vec2_normalize(a) ==
  LET len == Distance(a, Vec2_zero)
  IN IF len = 0 THEN Vec2_zero
     ELSE Vec2(MulDiv(a.x, 1000, len), MulDiv(a.y, 1000, len))

\* the angle of heading k, in thousandths of a radian
AngleMilli(k) == 60 * k - 1571
\* Vec2.fromAngle: a unit vector in thousandths
Vec2_fromAngle(k) ==
  IF k >= AngleMin /\ k - AngleMin + 1 <= Len(CosTab)
    THEN Vec2(CosTab[k - AngleMin + 1], SinTab[k - AngleMin + 1])
    ELSE Vec2(CosMilli(AngleMilli(k)), SinMilli(AngleMilli(k)))

VARIABLES
  ship,        \* the Ship object
  ret,         \* the value returned by the last Ship method called
  hitAge,      \* update() calls since the last takeDamage() that cost a life; -1: none
  clock,       \* update() calls made on the object under study
  attackIn,    \* arguments of translateCargoToAttack
  attackOut,   \* the AttackResult it returned
  mine,        \* a Mine
  nuke,        \* a Nuke
  probe,       \* the ship position handed to collidesWith
  hit,         \* whether collidesWith was called since the last update, and its result
  game,        \* the Game with its grids, bots, bullets, input, clock and random stream
  pc,          \* where Game.loop stands: between frames, or at a call of its while loop
  meter        \* frames and key events left to explore, physics steps of the current frame

vars == <<ship, ret, hitAge, clock, attackIn, attackOut, mine, nuke, probe, hit,
          game, pc, meter>>

\* ---------------------------------------------------------------- Ship
EmptyCargo == [i \in 0 .. MAX_CARGO_SLOTS - 1 |-> None]

\* new Ship(x, y), at angle step k
NewShip(x, y, k) ==
  [ position |-> Vec2(x, y), velocity |-> Vec2_zero, angle |-> k,
    previousPosition |-> Vec2(x, y), previousAngle |-> k,
    thrusting |-> FALSE, rotatingLeft |-> FALSE, rotatingRight |-> FALSE,
    cargo |-> EmptyCargo, lives |-> MAX_LIVES, invulnerabilityTimer |-> 0,
    isDead |-> FALSE, speedBoost |-> 1000 ]

\* one axis of wrapPosition: the wrap delta applied to position and previousPosition
WrapDelta(p, size) ==
  IF p < 0 THEN size
  ELSE IF p > size THEN -size
  ELSE 0

Ship_wrapPosition(s) ==
  LET dx == WrapDelta(s.position.x, Px(WORLD_WIDTH))
      dy == WrapDelta(s.position.y, Px(WORLD_HEIGHT))
  IN [s EXCEPT !.position = Vec2(@.x + dx, @.y + dy),
               !.previousPosition = Vec2(@.x + dx, @.y + dy)]

Ship_savePreviousState(s) ==
  [s EXCEPT !.previousPosition = s.position, !.previousAngle = s.angle]

Ship_update(s) ==
  IF s.isDead THEN s
  ELSE
    LET a1 == IF s.rotatingLeft THEN s.angle - 1 ELSE s.angle
        a2 == IF s.rotatingRight THEN a1 + 1 ELSE a1
        \* fromAngle(angle).mul(SHIP_THRUST * speedBoost), in hundredths of a pixel
        thrustVector ==
          Vec2_mul(Vec2_mul(Vec2_fromAngle(a2), MulDiv(SHIP_THRUST, s.speedBoost, 1000)), 100)
        v1 == IF s.thrusting THEN Vec2_add(s.velocity, thrustVector) ELSE s.velocity
        v2 == Vec2_clamp(v1, MulDiv(Px(SHIP_MAX_SPEED), s.speedBoost, 1000))
        v3 == Vec2_mul(v2, SHIP_DRAG)
        moved == [s EXCEPT !.angle = a2, !.velocity = v3,
                           !.position = Vec2_add(s.position, v3)]
        wrapped == Ship_wrapPosition(moved)
    IN [wrapped EXCEPT
          !.invulnerabilityTimer = IF @ > 0 THEN @ - 1 ELSE @,
          !.speedBoost = 1000]

Ship_isInvulnerable(s) == s.invulnerabilityTimer > 0

Ship_getCargoCount(s) == Cardinality({i \in DOMAIN s.cargo : s.cargo[i] # None})
Ship_isCargoFull(s) == Ship_getCargoCount(s) >= MAX_CARGO_SLOTS
Ship_isCargoEmpty(s) == Ship_getCargoCount(s) = 0

\* mutant: a full cargo reports slot 0 as empty
EmptySlotOverwrite(s) ==
  IF \E i \in DOMAIN s.cargo : s.cargo[i] = None
    THEN CHOOSE i \in DOMAIN s.cargo :
           s.cargo[i] = None /\ \A j \in DOMAIN s.cargo : s.cargo[j] = None => i <= j
    ELSE 0

\* cargo.findIndex(slot => slot === null)
EmptySlot(s) ==
  IF \E i \in DOMAIN s.cargo : s.cargo[i] = None
    THEN CHOOSE i \in DOMAIN s.cargo :
           s.cargo[i] = None /\ \A j \in DOMAIN s.cargo : s.cargo[j] = None => i <= j
    ELSE -1

Ship_addCargo(s, orbType) ==
  IF EmptySlot(s) = -1 THEN s
  ELSE [s EXCEPT !.cargo[EmptySlot(s)] = orbType]
\* mutant: addCargo reports success even when no slot is free
Ship_addCargoRetAlways(s) == TRUE
Ship_addCargoRet(s) == EmptySlot(s) # -1

RECURSIVE Collect(_, _)
Collect(cargo, i) ==
  IF i >= MAX_CARGO_SLOTS THEN <<>>
  ELSE IF cargo[i] = None THEN Collect(cargo, i + 1)
  ELSE <<cargo[i]>> \o Collect(cargo, i + 1)

Ship_clearCargo(s) == [s EXCEPT !.cargo = EmptyCargo]
Ship_clearCargoRet(s) == Collect(s.cargo, 0)

Ship_removeCargoAt(s, slotIndex) ==
  IF slotIndex < 0 \/ slotIndex >= MAX_CARGO_SLOTS THEN s
  ELSE [s EXCEPT !.cargo[slotIndex] = None]
Ship_removeCargoAtRet(s, slotIndex) ==
  IF slotIndex < 0 \/ slotIndex >= MAX_CARGO_SLOTS THEN None
  ELSE s.cargo[slotIndex]

\* mutant: the hit grants no invulnerability
Ship_takeDamageNoTimer(s) ==
  IF Ship_isInvulnerable(s) \/ s.isDead THEN s
  ELSE LET hurt == Ship_clearCargo([s EXCEPT !.lives = @ - 1])
       IN IF hurt.lives <= 0 THEN [hurt EXCEPT !.isDead = TRUE] ELSE hurt

Ship_takeDamage(s) ==
  IF Ship_isInvulnerable(s) \/ s.isDead THEN s
  ELSE LET hurt == Ship_clearCargo(
                     [s EXCEPT !.lives = @ - 1,
                               !.invulnerabilityTimer = INVULNERABILITY_TIME])
       IN IF hurt.lives <= 0 THEN [hurt EXCEPT !.isDead = TRUE] ELSE hurt
\* mutant: every hit that takes a life reports the ship destroyed
Ship_takeDamageRetAnyHit(s) == ~(Ship_isInvulnerable(s) \/ s.isDead)
Ship_takeDamageRet(s) ==
  ~(Ship_isInvulnerable(s) \/ s.isDead) /\ s.lives - 1 <= 0

Ship_applySpeedBoost(s, multiplier) ==
  [s EXCEPT !.speedBoost = Max(@, multiplier)]

Ship_reset(s, x, y) ==
  [s EXCEPT !.position = Vec2(x, y), !.previousPosition = Vec2(x, y),
            !.velocity = Vec2_zero, !.angle = 0, !.previousAngle = 0,
            !.lives = MAX_LIVES, !.invulnerabilityTimer = 0, !.isDead = FALSE,
            !.cargo = EmptyCargo, !.speedBoost = 1000]

\* the spawn point GridState.reset() uses
SpawnPoint == Vec2(Px(WORLD_WIDTH) \div 2, Px(WORLD_HEIGHT) \div 2 + Px(200))

\* new Wormhole().position
WormholeCenter == Vec2(Px(WORLD_WIDTH) \div 2, Px(WORLD_HEIGHT) \div 2)

\* ------------------------------------------------------------- Hazards
ASTEROID == "asteroid"
SEEKER == "seeker"
MINE == "mine"
NUKE == "nuke"

\* mutant: the two radii swapped
NewAsteroidSwapped(position, velocity, isLarge) ==
  [ type |-> ASTEROID, position |-> position, velocity |-> velocity,
    radius |-> IF isLarge THEN Px(20) ELSE Px(35), isLarge |-> isLarge,
    lifetime |-> 15 * 60, maxLifetime |-> 15 * 60, active |-> TRUE ]

\* new Asteroid(position, velocity, isLarge)
NewAsteroid(position, velocity, isLarge) ==
  [ type |-> ASTEROID, position |-> position, velocity |-> velocity,
    radius |-> IF isLarge THEN Px(35) ELSE Px(20), isLarge |-> isLarge,
    lifetime |-> 15 * 60, maxLifetime |-> 15 * 60, active |-> TRUE ]

\* new SeekerDrone(position), its wobble phase (thousandths of a radian) drawn
\* by the constructor; then setTarget
NewSeeker(position, wobblePhase) ==
  [ type |-> SEEKER, position |-> position, velocity |-> Vec2_zero,
    radius |-> Px(12), maxSpeed |-> MulDiv(Px(SHIP_MAX_SPEED), 600, 1000),
    lifetime |-> 20 * 60, maxLifetime |-> 20 * 60, active |-> TRUE,
    wobblePhase |-> wobblePhase, targetShip |-> None ]
Seeker_setTarget(h, shipId) == [h EXCEPT !.targetShip = shipId]

\* Mine.armingTime as constructed
MINE_ARMING_TIME == 2 * 60
\* new Mine(position)
NewMine(position) ==
  [ type |-> MINE, position |-> position, velocity |-> Vec2_zero,
    radius |-> Px(10), armingRadius |-> Px(60),
    lifetime |-> 30 * 60, maxLifetime |-> 30 * 60, armingTime |-> MINE_ARMING_TIME,
    active |-> TRUE, armed |-> FALSE, blinkSteps |-> 0 ]

\* new Nuke(position)
NewNuke(position) ==
  [ type |-> NUKE, position |-> position, velocity |-> Vec2_zero,
    radius |-> 0, maxRadius |-> Px(375),
    lifetime |-> 5 * 60 + 2 * 60, maxLifetime |-> 5 * 60 + 2 * 60,
    countdownTime |-> 5 * 60, detonated |-> FALSE, explosionTime |-> 0,
    maxExplosionTime |-> 2 * 60, active |-> TRUE, safeZoneRadius |-> Px(50) ]

\* new SpeedBoostZone(position, isEnhanced)
NewSpeedBoostZone(position, isEnhanced) ==
  [ position |-> position,
    radius |-> IF isEnhanced THEN Px(150) ELSE Px(100),
    lifetime |-> IF isEnhanced THEN 15 * 60 ELSE 10 * 60,
    maxLifetime |-> IF isEnhanced THEN 15 * 60 ELSE 10 * 60,
    active |-> TRUE,
    boostMultiplier |-> IF isEnhanced THEN 2000 ELSE 1500 ]

\* hazard.isExpired(), the same for every kind
Hazard_isExpired(h) == h.lifetime <= 0

\* mutant: arms one update late
Mine_updateLate(m) ==
  IF ~m.active THEN m
  ELSE IF ~m.armed
    THEN [m EXCEPT !.armingTime = @ - 1,
                   !.armed = (m.armingTime - 1 < 0),
                   !.lifetime = @ - 1]
    ELSE [m EXCEPT !.blinkSteps = @ + 1, !.lifetime = @ - 1]

Mine_update(m) ==
  IF ~m.active THEN m
  ELSE IF ~m.armed
    THEN [m EXCEPT !.armingTime = @ - 1,
                   !.armed = (m.armingTime - 1 <= 0),
                   !.lifetime = @ - 1]
    ELSE [m EXCEPT !.blinkSteps = @ + 1, !.lifetime = @ - 1]

Mine_collidesWith(m, shipPosition, shipRadius) ==
  IF ~m.active THEN FALSE
  ELSE IF m.armed THEN DistLE(m.position, shipPosition, m.armingRadius + shipRadius)
  ELSE DistLE(m.position, shipPosition, m.radius + shipRadius)

\* mutant: the explosion never burns out
Nuke_updateEndless(n) ==
  IF ~n.active THEN n
  ELSE IF ~n.detonated
    THEN [n EXCEPT !.countdownTime = @ - 1,
                   !.detonated = (n.countdownTime - 1 <= 0),
                   !.explosionTime = IF n.countdownTime - 1 <= 0 THEN 0 ELSE @,
                   !.lifetime = @ - 1]
    ELSE
      LET t == n.explosionTime + 1
          grown == Min(MulDiv(n.maxRadius * 15, t, 10 * n.maxExplosionTime), n.maxRadius)
      IN [n EXCEPT !.explosionTime = t, !.radius = grown, !.lifetime = @ - 1]

\* Nuke.update
Nuke_update(n) ==
  IF ~n.active THEN n
  ELSE IF ~n.detonated
    THEN [n EXCEPT !.countdownTime = @ - 1,
                   !.detonated = (n.countdownTime - 1 <= 0),
                   !.explosionTime = IF n.countdownTime - 1 <= 0 THEN 0 ELSE @,
                   !.lifetime = @ - 1]
    ELSE
      LET t == n.explosionTime + 1
          \* maxRadius * Math.min(progress * 1.5, 1)
          grown == Min(MulDiv(n.maxRadius * 15, t, 10 * n.maxExplosionTime), n.maxRadius)
      IN [n EXCEPT !.explosionTime = t,
                   !.radius = grown,
                   !.active = ~(t >= n.maxExplosionTime),
                   !.lifetime = @ - 1]

WorldCorners ==
  { Vec2(0, 0), Vec2(Px(WORLD_WIDTH), 0), Vec2(0, Px(WORLD_HEIGHT)),
    Vec2(Px(WORLD_WIDTH), Px(WORLD_HEIGHT)) }

Nuke_collidesWith(n, shipPosition, shipRadius) ==
  IF ~n.active \/ ~n.detonated THEN FALSE
  ELSE IF DistLE(shipPosition, n.position, n.safeZoneRadius) THEN FALSE
  ELSE IF \E corner \in WorldCorners : DistLT(shipPosition, corner, Px(80)) THEN FALSE
  ELSE DistLE(n.position, shipPosition, n.radius + shipRadius)

\* Wormhole.isInWormhole
Wormhole_isInWormhole(position) == DistLE(position, WormholeCenter, Px(WORMHOLE_RADIUS))
\* Wormhole.isInBankingZone
Wormhole_isInBankingZone(position) ==
  DistLE(position, WormholeCenter, Px(WORMHOLE_BANKING_RADIUS))

\* Asteroid.update: move, bounce off the walls, age
Asteroid_update(h) ==
  IF ~h.active THEN h
  ELSE
    LET px == h.position.x + h.velocity.x
        py == h.position.y + h.velocity.y
        lowX == px < h.radius
        highX == ~lowX /\ px > Px(WORLD_WIDTH) - h.radius
        lowY == py < h.radius
        highY == ~lowY /\ py > Px(WORLD_HEIGHT) - h.radius
    IN [h EXCEPT
          !.position = Vec2(IF lowX THEN h.radius
                            ELSE IF highX THEN Px(WORLD_WIDTH) - h.radius ELSE px,
                            IF lowY THEN h.radius
                            ELSE IF highY THEN Px(WORLD_HEIGHT) - h.radius ELSE py),
          !.velocity = Vec2(IF lowX THEN Abs(h.velocity.x)
                            ELSE IF highX THEN -Abs(h.velocity.x) ELSE h.velocity.x,
                            IF lowY THEN Abs(h.velocity.y)
                            ELSE IF highY THEN -Abs(h.velocity.y) ELSE h.velocity.y),
          !.lifetime = @ - 1]

\* the screen wrap of seekers and bullets, one axis: two ifs in a row
WrapAxis(p, size) ==
  LET p1 == IF p < 0 THEN p + size ELSE p
  IN IF p1 > size THEN p1 - size ELSE p1

\* the Ship a seeker's targetShip refers to: null, or a ship at a position
NoTarget == [set |-> FALSE, position |-> Vec2_zero]
Target(s) == [set |-> TRUE, position |-> s.position]

\* SeekerDrone.update
\* mutant: a seeker does not age
Seeker_updateAgeless(h, target) ==
  IF ~h.active THEN h
  ELSE IF ~target.set THEN h
  ELSE
    LET phase == h.wobblePhase + 100
        toPlayer == Vec2_sub(target.position, h.position)
        direction == Vec2_normalize(toPlayer)
        wobbleX == MulDiv(CosMilli(phase), 300, 1000)
        wobbleY == MulDiv(SinMilli(MulDiv(phase, 1300, 1000)), 300, 1000)
        wobbled == Vec2_normalize(Vec2(direction.x + wobbleX, direction.y + wobbleY))
        velocity == IF toPlayer = Vec2_zero THEN h.velocity
                    ELSE Vec2_mul(wobbled, h.maxSpeed)
    IN [h EXCEPT
          !.wobblePhase = phase,
          !.velocity = velocity,
          !.position = Vec2(WrapAxis(h.position.x + velocity.x, Px(WORLD_WIDTH)),
                            WrapAxis(h.position.y + velocity.y, Px(WORLD_HEIGHT)))]

\* SeekerDrone.update
Seeker_update(h, target) ==
  IF ~h.active THEN h
  ELSE IF ~target.set THEN h
  ELSE
    LET phase == h.wobblePhase + 100
        toPlayer == Vec2_sub(target.position, h.position)
        direction == Vec2_normalize(toPlayer)
        wobbleX == MulDiv(CosMilli(phase), 300, 1000)
        wobbleY == MulDiv(SinMilli(MulDiv(phase, 1300, 1000)), 300, 1000)
        wobbled == Vec2_normalize(Vec2(direction.x + wobbleX, direction.y + wobbleY))
        velocity == IF toPlayer = Vec2_zero THEN h.velocity
                    ELSE Vec2_mul(wobbled, h.maxSpeed)
    IN [h EXCEPT
          !.wobblePhase = phase,
          !.velocity = velocity,
          !.position = Vec2(WrapAxis(h.position.x + velocity.x, Px(WORLD_WIDTH)),
                            WrapAxis(h.position.y + velocity.y, Px(WORLD_HEIGHT))),
          !.lifetime = @ - 1]

\* Asteroid.collidesWith and SeekerDrone.collidesWith
Body_collidesWith(h, shipPosition, shipRadius) ==
  h.active /\ DistLE(h.position, shipPosition, h.radius + shipRadius)

\* hazard.update(), by the hazard's class
Hazard_update(h, target) ==
  CASE h.type = ASTEROID -> Asteroid_update(h)
    [] h.type = SEEKER -> Seeker_update(h, target)
    [] h.type = MINE -> Mine_update(h)
    [] h.type = NUKE -> Nuke_update(h)

\* hazard.collidesWith(), by the hazard's class
Hazard_collidesWith(h, shipPosition, shipRadius) ==
  CASE h.type = ASTEROID -> Body_collidesWith(h, shipPosition, shipRadius)
    [] h.type = SEEKER -> Body_collidesWith(h, shipPosition, shipRadius)
    [] h.type = MINE -> Mine_collidesWith(h, shipPosition, shipRadius)
    [] h.type = NUKE -> Nuke_collidesWith(h, shipPosition, shipRadius)

\* SpeedBoostZone.update
Zone_update(z) ==
  [z EXCEPT !.lifetime = @ - 1, !.active = IF z.lifetime - 1 <= 0 THEN FALSE ELSE @]
\* SpeedBoostZone.contains
Zone_contains(z, position) == z.active /\ DistLE(z.position, position, z.radius)

\* ----------------------------------------------------------------- Orb
\* new Orb(position, type); bobSteps counts the ORB_BOB_SPEED steps of bobPhase
NewOrb(position, type) == [position |-> position, type |-> type, bobSteps |-> 0]
Orb_update(o) == [o EXCEPT !.bobSteps = @ + 1]
Orb_collidesWith(o, shipPosition, shipRadius) ==
  DistLE(o.position, shipPosition, shipRadius + Px(ORB_RADIUS))
\* Orb.getRandomType, for a draw in thousandths
Orb_getRandomType(rand) ==
  IF rand <= 400 THEN RED
  ELSE IF rand <= 750 THEN BLUE
  ELSE IF rand <= 950 THEN GREEN
  ELSE GOLD

\* ------------------------------------------------------ AttackTranslator
\* The i-th Math.random() of a call, in thousandths.  A stream is picked by its
\* seed; draws are quarters, whose cos and sin (of a draw times 2 PI) are exact.
Random(seed, i) == 250 * ((seed + i * (2 * seed + 1)) % 4)
\* fromAngle(r * 2 PI) for a quarter draw r, in thousandths
TurnVector(r) ==
  CASE r = 0 -> Vec2(1000, 0)
    [] r = 250 -> Vec2(0, 1000)
    [] r = 500 -> Vec2(-1000, 0)
    [] r = 750 -> Vec2(0, -1000)

\* draws 0, 1 of the call at stream position n
getRandomEdgePosition(seed, n) ==
  LET edge == (Random(seed, n) * 4) \div 1000
      along == Random(seed, n + 1)
  IN CASE edge = 0 -> Vec2(MulDiv(Px(WORLD_WIDTH), along, 1000), Px(30))
       [] edge = 1 -> Vec2(Px(WORLD_WIDTH) - Px(30), MulDiv(Px(WORLD_HEIGHT), along, 1000))
       [] edge = 2 -> Vec2(MulDiv(Px(WORLD_WIDTH), along, 1000), Px(WORLD_HEIGHT) - Px(30))
       [] edge = 3 -> Vec2(Px(30), MulDiv(Px(WORLD_HEIGHT), along, 1000))

getRandomPosition(center, minDistance, seed, n) ==
  LET dir == TurnVector(Random(seed, n))
      distance == minDistance + MulDiv(Px(200), Random(seed, n + 1), 1000)
  IN Vec2_add(center, Vec2_mul(dir, distance))

\* the constructor draws 10 more numbers (rotation, spin, shape): 14 per asteroid
spawnAsteroid(isLarge, seed, n) ==
  LET spawnPos == getRandomEdgePosition(seed, n)
      dir == TurnVector(Random(seed, n + 2))
      speed == Px(1) + MulDiv(Px(2), Random(seed, n + 3), 1000)
  IN NewAsteroid(spawnPos, Vec2_mul(dir, speed), isLarge)

\* the constructor draws the wobble phase: 3 per seeker
spawnSeeker(shipId, hub, seed, n) ==
  Seeker_setTarget(
    NewSeeker(getRandomPosition(hub, Px(150), seed, n),
              MulDiv(6283, Random(seed, n + 2), 1000)),
    shipId)

\* 2 draws per mine
spawnMine(hub, seed, n) == NewMine(getRandomPosition(hub, Px(250), seed, n))

\* mutant: the nuke is put at the world centre, whatever position is handed in
spawnNukeAtCenter(hub) == NewNuke(WormholeCenter)
spawnNuke(hub) == NewNuke(hub)

spawnAsteroidWall(seed, n) ==
  LET spawnEdge == (Random(seed, n) * 4) \div 1000
      speed == Px(2) + MulDiv(Px(1), Random(seed, n + 1), 1000)
      startX == CASE spawnEdge \in {0, 2} -> Px(WORLD_WIDTH) \div 2 - Px(200)
                  [] spawnEdge = 1 -> Px(WORLD_WIDTH) - Px(50)
                  [] spawnEdge = 3 -> Px(50)
      startY == CASE spawnEdge \in {1, 3} -> Px(WORLD_HEIGHT) \div 2 - Px(200)
                  [] spawnEdge = 0 -> Px(50)
                  [] spawnEdge = 2 -> Px(WORLD_HEIGHT) - Px(50)
      velocity == CASE spawnEdge = 0 -> Vec2(0, speed)
                    [] spawnEdge = 1 -> Vec2(-speed, 0)
                    [] spawnEdge = 2 -> Vec2(0, -speed)
                    [] spawnEdge = 3 -> Vec2(speed, 0)
  IN [ j \in 1 .. 8 |->
         LET i == j - 1
         IN NewAsteroid(
              Vec2(IF spawnEdge % 2 = 0 THEN startX + i * Px(60) ELSE startX,
                   IF spawnEdge % 2 = 1 THEN startY + i * Px(60) ELSE startY),
              velocity, i % 3 = 0) ]

\* for (i = 0; i < count; i++) hazards.push(spawn...): the pushes of one loop
Asteroids(count, isLarge, seed, n) ==
  [ j \in 1 .. count |-> spawnAsteroid(isLarge, seed, n + 14 * (j - 1)) ]
\* mutant: the loop runs once too often
SeekersOnceMore(count, shipId, hub, seed, n) ==
  [ j \in 1 .. count + 1 |-> spawnSeeker(shipId, hub, seed, n + 3 * (j - 1)) ]
Seekers(count, shipId, hub, seed, n) ==
  [ j \in 1 .. count |-> spawnSeeker(shipId, hub, seed, n + 3 * (j - 1)) ]
Mines(count, hub, seed, n) ==
  [ j \in 1 .. count |-> spawnMine(hub, seed, n + 2 * (j - 1)) ]

AttackResult(hazards, boostZones, tier, description) ==
  [ hazards |-> hazards, boostZones |-> boostZones, tier |-> tier,
    description |-> description ]

spawnTier1Attack(type, shipId, hub, seed) ==
  CASE type = RED ->
         AttackResult(Asteroids(3, FALSE, seed, 0), <<>>, TIER_1, "3 Asteroids spawned!")
    [] type = BLUE ->
         AttackResult(Seekers(1, shipId, hub, seed, 0), <<>>, TIER_1, "Seeker Drone launched!")
    [] type = GREEN ->
         AttackResult(<<>>, <<NewSpeedBoostZone(hub, FALSE)>>, TIER_1,
                      "Speed Boost Zone created!")
    [] OTHER -> AttackResult(<<>>, <<>>, TIER_1, "")

\* mutant: the enhanced red swarm has one large asteroid, not two
spawnEnhancedAttackThin(type, shipId, hub, seed) ==
  CASE type = RED ->
         AttackResult(Asteroids(3, FALSE, seed, 0) \o Asteroids(1, TRUE, seed, 3 * 14),
                      <<>>, TIER_1_5, "Enhanced Asteroid Swarm!")
    [] type = BLUE ->
         AttackResult(Seekers(2, shipId, hub, seed, 0), <<>>, TIER_1_5,
                      "Twin Seekers launched!")
    [] type = GREEN ->
         AttackResult(<<>>, <<NewSpeedBoostZone(hub, TRUE)>>, TIER_1_5,
                      "Enhanced Speed Zone!")
    [] OTHER -> AttackResult(<<>>, <<>>, TIER_1_5, "")

spawnEnhancedAttack(type, shipId, hub, seed) ==
  CASE type = RED ->
         AttackResult(Asteroids(3, FALSE, seed, 0) \o Asteroids(2, TRUE, seed, 3 * 14),
                      <<>>, TIER_1_5, "Enhanced Asteroid Swarm!")
    [] type = BLUE ->
         AttackResult(Seekers(2, shipId, hub, seed, 0), <<>>, TIER_1_5,
                      "Twin Seekers launched!")
    [] type = GREEN ->
         AttackResult(<<>>, <<NewSpeedBoostZone(hub, TRUE)>>, TIER_1_5,
                      "Enhanced Speed Zone!")
    [] OTHER -> AttackResult(<<>>, <<>>, TIER_1_5, "")

spawnTier2Attack(type, shipId, hub, seed) ==
  CASE type = RED ->
         AttackResult(spawnAsteroidWall(seed, 0), <<>>, TIER_2, "ASTEROID WALL!")
    [] type = BLUE ->
         AttackResult(Seekers(3, shipId, hub, seed, 0), <<>>, TIER_2, "Seeker Swarm!")
    [] type = GREEN ->
         AttackResult(Mines(8, hub, seed, 0), <<>>, TIER_2, "MINE FIELD deployed!")
    [] OTHER -> AttackResult(<<>>, <<>>, TIER_2, "")

\* mutant: one mine missing
spawnChaosStormOneMine(shipId, hub, seed) ==
  AttackResult(
    << spawnAsteroid(FALSE, seed, 0),
       spawnAsteroid(TRUE, seed, 14),
       spawnSeeker(shipId, hub, seed, 28),
       spawnMine(hub, seed, 31) >>,
    <<>>, TIER_2, "CHAOS STORM!")

spawnChaosStorm(shipId, hub, seed) ==
  AttackResult(
    << spawnAsteroid(FALSE, seed, 0),
       spawnAsteroid(TRUE, seed, 14),
       spawnSeeker(shipId, hub, seed, 28),
       spawnMine(hub, seed, 31),
       spawnMine(hub, seed, 33) >>,
    <<>>, TIER_2, "CHAOS STORM!")

spawnMegaAttack(type, shipId, hub, seed) ==
  CASE type = RED ->
         AttackResult(Asteroids(8, FALSE, seed, 0) \o Asteroids(4, TRUE, seed, 8 * 14),
                      <<>>, TIER_3, "MEGA ASTEROID BARRAGE!")
    [] type = BLUE ->
         AttackResult(Seekers(5, shipId, hub, seed, 0), <<>>, TIER_3, "MEGA SEEKER SWARM!")
    [] type = GREEN ->
         AttackResult(Mines(12, hub, seed, 0), <<NewSpeedBoostZone(hub, TRUE)>>, TIER_3,
                      "MEGA DEFENSE GRID!")
    [] OTHER -> AttackResult(<<>>, <<>>, TIER_3, "")

\* mutant: every orb is tallied twice
CountTwice(cargo, type) == 2 * Cardinality({i \in DOMAIN cargo : cargo[i] = type})

\* counts[type]: the cargo loop's tally
Count(cargo, type) == Cardinality({i \in DOMAIN cargo : cargo[i] = type})

\* for (const type of [RED, BLUE, GREEN]) if (counts[type] >= n): the first such type
FirstColour(cargo, n) ==
  IF Count(cargo, RED) >= n THEN RED
  ELSE IF Count(cargo, BLUE) >= n THEN BLUE
  ELSE IF Count(cargo, GREEN) >= n THEN GREEN
  ELSE None

\* mutant: the chaos storm is tried after the 3-of-a-colour rule
translateChaosLate(cargo, shipId, hub, seed) ==
  IF Count(cargo, GOLD) >= 8
    THEN AttackResult(<<spawnNuke(hub)>>, <<>>, TIER_4, "NUKE DETONATED!")
  ELSE IF FirstColour(cargo, 4) # None
    THEN spawnMegaAttack(FirstColour(cargo, 4), shipId, hub, seed)
  ELSE IF FirstColour(cargo, 3) # None
    THEN spawnTier2Attack(FirstColour(cargo, 3), shipId, hub, seed)
  ELSE IF Count(cargo, RED) >= 1 /\ Count(cargo, BLUE) >= 1 /\ Count(cargo, GREEN) >= 1
    THEN spawnChaosStorm(shipId, hub, seed)
  ELSE IF FirstColour(cargo, 2) # None
    THEN spawnEnhancedAttack(FirstColour(cargo, 2), shipId, hub, seed)
  ELSE IF FirstColour(cargo, 1) # None
    THEN spawnTier1Attack(FirstColour(cargo, 1), shipId, hub, seed)
  ELSE AttackResult(<<>>, <<>>, TIER_1, "Nothing happened...")

translateCargoToAttack(cargo, shipId, hub, seed) ==
  IF Count(cargo, GOLD) >= 8
    THEN AttackResult(<<spawnNuke(hub)>>, <<>>, TIER_4, "NUKE DETONATED!")
  ELSE IF FirstColour(cargo, 4) # None
    THEN spawnMegaAttack(FirstColour(cargo, 4), shipId, hub, seed)
  ELSE IF Count(cargo, RED) >= 1 /\ Count(cargo, BLUE) >= 1 /\ Count(cargo, GREEN) >= 1
    THEN spawnChaosStorm(shipId, hub, seed)
  ELSE IF FirstColour(cargo, 3) # None
    THEN spawnTier2Attack(FirstColour(cargo, 3), shipId, hub, seed)
  ELSE IF FirstColour(cargo, 2) # None
    THEN spawnEnhancedAttack(FirstColour(cargo, 2), shipId, hub, seed)
  ELSE IF FirstColour(cargo, 1) # None
    THEN spawnTier1Attack(FirstColour(cargo, 1), shipId, hub, seed)
  ELSE AttackResult(<<>>, <<>>, TIER_1, "Nothing happened...")

\* ------------------------------------------------------------ the game
\* Time is counted in sixtieths of a millisecond, so that PHYSICS_DT = 1000 / 60 ms
\* is the whole number 1000.
PHYSICS_DT == 1000
Ms(n) == n * 60
MAX_ORBS == 12
MIN_SPAWN_DISTANCE == 150
MIN_EDGE_DISTANCE == 50
SPAWN_INTERVAL_MIN == 2000
SPAWN_INTERVAL_MAX == 4000
ATTACK_MESSAGE_DURATION == 3 * 60
SCREEN_SHAKE_DECAY == 900      \* 0.9, in thousandths
maxKillFeed == 5
SHOOT_COOLDOWN == 150
BULLET_SPEED == 12
BULLET_LIFETIME == 40
BULLET_RADIUS == 3

\* GridOwner; the grids Map and the bots Map iterate in insertion order
PLAYER == "player"
GridOrder == <<"player", "bot-1", "bot-2">>
BotOrder == <<"bot-1", "bot-2">>
Owners == {GridOrder[i] : i \in DOMAIN GridOrder}
BotOwners == {BotOrder[i] : i \in DOMAIN BotOrder}

\* the variable game holds the Game object with its grids, bots, bullets and input
\* handler, the shared Wormhole, the clock performance.now() (now), the
\* Math.random() stream (seed, draws), and a log of what the last step emitted

\* Math.random(): the i-th draw of the call made at this point of the stream
Draw(g, i) == Random(g.seed + g.draws, i)
Drawn(g) == [g EXCEPT !.draws = @ + 1]

\* a kill-feed message: a template, the names put into it, and a number
Msg(text, who, what, n) == [text |-> text, who |-> who, what |-> what, n |-> n]

\* sourceOwner === 'player' ? 'Player' : sourceOwner.toUpperCase()
DisplayName(owner) ==
  CASE owner = "player" -> "Player"
    [] owner = "bot-1" -> "BOT-1"
    [] owner = "bot-2" -> "BOT-2"
    [] owner = "bot-3" -> "BOT-3"

\* new Wormhole(): its position is WormholeCenter
NewWormhole == [rotationSteps |-> 0, pulseSteps |-> 0]
Wormhole_update(w) == [w EXCEPT !.rotationSteps = @ + 1, !.pulseSteps = @ + 1]

\* lastAttackResult: null, or the result's tier and description
NoAttackResult == [tier |-> 0, description |-> None]

\* new GridState(config, sharedWormhole)
NewGridState(owner, isPlayer, shipStartX, shipStartY) ==
  [ owner |-> owner, isPlayer |-> isPlayer,
    ship |-> NewShip(shipStartX, shipStartY, 0),
    orbs |-> <<>>, hazards |-> <<>>, boostZones |-> <<>>,
    orbSpawnTimer |-> 0, nextOrbSpawnTime |-> Ms(3000),
    bankingPulse |-> 0, lastAttackResult |-> NoAttackResult,
    attackMessageTimer |-> 0, screenShake |-> 0,
    gameOver |-> FALSE, gameOverTimer |-> 0, winner |-> None ]

\* mutant: the feed is never trimmed
Game_addKillFeedNoPop(g, message) ==
  [g EXCEPT !.killFeed = <<message>> \o g.killFeed]

\* Game.addKillFeed
Game_addKillFeed(g, message) ==
  LET fed == <<message>> \o g.killFeed
  IN IF Len(fed) > maxKillFeed
       THEN [g EXCEPT !.killFeed = SubSeq(fed, 1, Len(fed) - 1),
                      !.log.popped = @ + 1]
       ELSE [g EXCEPT !.killFeed = fed]

\* the tiered screen shake of bankOrbs and spawnAttack, in thousandths
ShakeOfTier(tier) ==
  IF tier >= TIER_3 THEN 20000 ELSE IF tier >= TIER_2 THEN 10000 ELSE 5000

\* mutant: the seekers keep the target the translator gave them, the banking ship
GridState_spawnAttackUnaimed(g, target, attackResult, sourceOwner) ==
  [g EXCEPT
     !.grids[target].hazards = @ \o attackResult.hazards,
     !.grids[target].boostZones = @ \o attackResult.boostZones,
     !.grids[target].lastAttackResult =
         [tier |-> attackResult.tier, description |-> attackResult.description],
     !.grids[target].attackMessageTimer = ATTACK_MESSAGE_DURATION,
     !.grids[target].screenShake = ShakeOfTier(attackResult.tier),
     !.log.deliveries = Append(@, [source |-> sourceOwner, target |-> target])]

\* GridState.spawnAttack, on the grid of owner target
GridState_spawnAttack(g, target, attackResult, sourceOwner) ==
  LET aimed == [i \in DOMAIN attackResult.hazards |->
                  IF attackResult.hazards[i].type = SEEKER
                    THEN Seeker_setTarget(attackResult.hazards[i], target)
                    ELSE attackResult.hazards[i]]
  IN [g EXCEPT
        !.grids[target].hazards = @ \o aimed,
        !.grids[target].boostZones = @ \o attackResult.boostZones,
        !.grids[target].lastAttackResult =
            [tier |-> attackResult.tier, description |-> attackResult.description],
        !.grids[target].attackMessageTimer = ATTACK_MESSAGE_DURATION,
        !.grids[target].screenShake = ShakeOfTier(attackResult.tier),
        !.log.deliveries = Append(@, [source |-> sourceOwner, target |-> target])]

\* mutant: the grids that are not game-over, in Map order
AliveOwnersInPlay(g) == SelectSeq(GridOrder, LAMBDA o : ~g.grids[o].gameOver)

\* the grids whose ship is alive, in Map order
AliveOwners(g) == SelectSeq(GridOrder, LAMBDA o : ~g.grids[o].ship.isDead)

\* mutant: the target is drawn among all the other grids, dead or alive
Game_spawnAttackToAnyTarget(g, sourceOwner, attackResult) ==
  LET opponents == SelectSeq(GridOrder, LAMBDA o : o # sourceOwner)
      pick == (Draw(g, 0) * Len(opponents)) \div 1000
  IN GridState_spawnAttack(Drawn(g), opponents[pick + 1], attackResult, sourceOwner)

\* Game.spawnAttackToRandomTarget
Game_spawnAttackToRandomTarget(g, sourceOwner, attackResult) ==
  LET livingOpponents == SelectSeq(AliveOwners(g), LAMBDA o : o # sourceOwner)
      pick == (Draw(g, 0) * Len(livingOpponents)) \div 1000
  IN IF Len(livingOpponents) = 0 THEN g
     ELSE GridState_spawnAttack(Drawn(g), livingOpponents[pick + 1], attackResult,
                                sourceOwner)

\* Game.handleBankOrbs, the grids' onBankOrbs callback
Game_handleBankOrbs(g, sourceOwner, orbs) ==
  LET attackResult == translateCargoToAttack(orbs, sourceOwner, WormholeCenter,
                                             g.seed + g.draws)
      logged == [g EXCEPT !.log.bankEvents =
                            Append(@, [owner |-> sourceOwner, orbs |-> orbs])]
      sent == Game_spawnAttackToRandomTarget(Drawn(logged), sourceOwner, attackResult)
  IN Game_addKillFeed(sent, Msg(">>", DisplayName(sourceOwner),
                                attackResult.description, 0))

\* mutant: a winner is named while two ships are still alive
Game_handleShipDestroyedEarly(g, owner) ==
  LET aliveGrids == AliveOwners(g)
  IN IF Len(aliveGrids) >= 1 /\ Len(aliveGrids) <= 2
       THEN Game_addKillFeed(
              [g EXCEPT !.winner = aliveGrids[1], !.gameOver = TRUE],
              Msg("WINS THE ROUND!", DisplayName(aliveGrids[1]), "", 0))
       ELSE g

\* Game.handleShipDestroyed, the grids' onShipDestroyed callback
Game_handleShipDestroyed(g, owner) ==
  LET aliveGrids == AliveOwners(g)
  IN IF Len(aliveGrids) = 1
       THEN Game_addKillFeed(
              [g EXCEPT !.winner = aliveGrids[1], !.gameOver = TRUE],
              Msg("WINS THE ROUND!", DisplayName(aliveGrids[1]), "", 0))
       ELSE g

\* mutant: the bank event carries the cargo slots as they are, empty ones too
GridState_bankOrbsSlots(g, o) ==
  LET grid == g.grids[o]
      inZone == Wormhole_isInBankingZone(grid.ship.position)
      isEmpty == Ship_isCargoEmpty(grid.ship)
      bankedOrbs == [i \in 1 .. MAX_CARGO_SLOTS |-> grid.ship.cargo[i - 1]]
      cleared == [g EXCEPT !.grids[o].ship = Ship_clearCargo(grid.ship)]
  IN IF inZone /\ ~isEmpty
       THEN [cleared EXCEPT !.log.bankEvents =
                              Append(@, [owner |-> o, orbs |-> bankedOrbs])]
       ELSE g

\* GridState.bankOrbs
GridState_bankOrbs(g, o) ==
  LET grid == g.grids[o]
      inZone == Wormhole_isInBankingZone(grid.ship.position)
      isEmpty == Ship_isCargoEmpty(grid.ship)
      bankedOrbs == Ship_clearCargoRet(grid.ship)
      cleared == [g EXCEPT !.grids[o].ship = Ship_clearCargo(grid.ship)]
      notified == Game_handleBankOrbs(cleared, o, bankedOrbs)
      attackResult == translateCargoToAttack(bankedOrbs, o, WormholeCenter,
                                             notified.seed + notified.draws)
  IN IF inZone /\ ~isEmpty
       THEN [Drawn(notified) EXCEPT
               !.grids[o].lastAttackResult =
                   [tier |-> attackResult.tier, description |-> attackResult.description],
               !.grids[o].attackMessageTimer = ATTACK_MESSAGE_DURATION,
               !.grids[o].screenShake = ShakeOfTier(attackResult.tier)]
       ELSE g

\* GridState.spawnOrb: up to 50 tries, each drawing x and y; the orbs afterwards
RECURSIVE SpawnAttempt(_, _, _)
SpawnAttempt(orbs, stream, attempts) ==
  IF attempts >= 50 THEN orbs
  ELSE
    LET x == Px(MIN_EDGE_DISTANCE)
               + MulDiv(Px(WORLD_WIDTH - MIN_EDGE_DISTANCE * 2),
                        Random(stream, 2 * attempts), 1000)
        y == Px(MIN_EDGE_DISTANCE)
               + MulDiv(Px(WORLD_HEIGHT - MIN_EDGE_DISTANCE * 2),
                        Random(stream, 2 * attempts + 1), 1000)
        position == Vec2(x, y)
        tooClose == \E i \in DOMAIN orbs :
                      DistLT(position, orbs[i].position, Px(ORB_RADIUS * 3))
    IN IF ~DistLT(position, WormholeCenter, Px(MIN_SPAWN_DISTANCE)) /\ ~tooClose
         THEN Append(orbs, NewOrb(position,
                                  Orb_getRandomType(Random(stream, 2 * attempts + 2))))
         ELSE SpawnAttempt(orbs, stream, attempts + 1)

\* mutant: a spawn puts two orbs into the world
GridState_spawnOrbTwice(g, o) ==
  [Drawn(g) EXCEPT !.grids[o].orbs =
     SpawnAttempt(SpawnAttempt(@, g.seed + g.draws, 0), g.seed + g.draws + 1, 0)]

\* GridState.spawnOrb
GridState_spawnOrb(g, o) ==
  [Drawn(g) EXCEPT !.grids[o].orbs = SpawnAttempt(@, g.seed + g.draws, 0)]

\* GridState.updateOrbSpawning
GridState_updateOrbSpawning(g, o) ==
  LET grid == g.grids[o]
      timer == grid.orbSpawnTimer + PHYSICS_DT
      spawned == GridState_spawnOrb(g, o)
  IN IF Len(grid.orbs) >= MAX_ORBS THEN g
     ELSE IF timer >= grid.nextOrbSpawnTime
       THEN [Drawn(spawned) EXCEPT
               !.grids[o].orbSpawnTimer = 0,
               !.grids[o].nextOrbSpawnTime =
                   Ms(SPAWN_INTERVAL_MIN)
                     + MulDiv(Ms(SPAWN_INTERVAL_MAX - SPAWN_INTERVAL_MIN),
                              Draw(spawned, 0), 1000)]
       ELSE [g EXCEPT !.grids[o].orbSpawnTimer = timer]

\* the ship-orb loop of checkCollisions: the ship and the orbs left, from orb i on
RECURSIVE PickUp(_, _, _, _)
PickUp(s, orbs, i, kept) ==
  IF i > Len(orbs) THEN [ship |-> s, orbs |-> kept]
  ELSE IF Orb_collidesWith(orbs[i], s.position, Px(SHIP_COLLISION_RADIUS))
          /\ Ship_addCargoRet(s)
    THEN PickUp(Ship_addCargo(s, orbs[i].type), orbs, i + 1, kept)
    ELSE PickUp(s, orbs, i + 1, Append(kept, orbs[i]))

\* the first hazard the ship collides with, or 0
FirstHit(hazards, s) ==
  LET hits == {i \in DOMAIN hazards :
                 Hazard_collidesWith(hazards[i], s.position, Px(SHIP_COLLISION_RADIUS))}
  IN IF hits = {} THEN 0 ELSE CHOOSE i \in hits : \A j \in hits : i <= j

\* hazard.type === 'seeker' ? 'Seeker Drone' : ...
KillerName(type) ==
  CASE type = SEEKER -> "Seeker Drone"
    [] type = ASTEROID -> "Asteroid"
    [] type = MINE -> "Mine"
    [] type = NUKE -> "NUKE"
    [] OTHER -> "Unknown"

\* a call of the grid's onShipDestroyed callback, noted in the log
OnShipDestroyed(g, o) ==
  Game_handleShipDestroyed([g EXCEPT !.log.shipsDestroyed = Append(@, o)], o)

\* mutant: every hit reports the ship destroyed, fatal or not
GridState_handleShipHitAlways(g, o, hazard) ==
  LET grid == g.grids[o]
      hurt == [g EXCEPT !.grids[o].screenShake = 15000,
                        !.grids[o].ship = Ship_takeDamage(grid.ship)]
  IN OnShipDestroyed(
       Game_addKillFeed(hurt, Msg("was destroyed by", DisplayName(o),
                                  KillerName(hazard.type), 0)),
       o)

\* GridState.handleShipHit
GridState_handleShipHit(g, o, hazard) ==
  LET grid == g.grids[o]
      died == Ship_takeDamageRet(grid.ship)
      hurt == [g EXCEPT !.grids[o].screenShake = 15000,
                        !.grids[o].ship = Ship_takeDamage(grid.ship)]
  IN IF died
       THEN OnShipDestroyed(
              Game_addKillFeed(hurt, Msg("was destroyed by", DisplayName(o),
                                         KillerName(hazard.type), 0)),
              o)
       ELSE hurt

\* mutant: the last colliding hazard in collection order is the one applied
GridState_checkCollisionsLast(g, o) ==
  LET picked == PickUp(g.grids[o].ship, g.grids[o].orbs, 1, <<>>)
      g1 == [g EXCEPT !.grids[o].ship = picked.ship, !.grids[o].orbs = picked.orbs]
      hits == {i \in DOMAIN g1.grids[o].hazards :
                 Hazard_collidesWith(g1.grids[o].hazards[i], picked.ship.position,
                                     Px(SHIP_COLLISION_RADIUS))}
      last == CHOOSE i \in hits : \A j \in hits : i >= j
  IN IF ~Ship_isInvulnerable(picked.ship) /\ hits # {}
       THEN GridState_handleShipHit(g1, o, g1.grids[o].hazards[last])
       ELSE g1

\* GridState.checkCollisions
GridState_checkCollisions(g, o) ==
  LET picked == PickUp(g.grids[o].ship, g.grids[o].orbs, 1, <<>>)
      g1 == [g EXCEPT !.grids[o].ship = picked.ship, !.grids[o].orbs = picked.orbs]
      first == FirstHit(g1.grids[o].hazards, picked.ship)
  IN IF ~Ship_isInvulnerable(picked.ship) /\ first # 0
       THEN GridState_handleShipHit(g1, o, g1.grids[o].hazards[first])
       ELSE g1

\* GridState.checkBoostZones: applySpeedBoost for each zone that contains the ship
RECURSIVE BoostFrom(_, _, _)
BoostFrom(s, zones, i) ==
  IF i > Len(zones) THEN s
  ELSE IF Zone_contains(zones[i], s.position)
    THEN BoostFrom(Ship_applySpeedBoost(s, zones[i].boostMultiplier), zones, i + 1)
    ELSE BoostFrom(s, zones, i + 1)
\* mutant: only the first zone that contains the ship is applied
GridState_checkBoostZonesFirst(g, o) ==
  LET zones == g.grids[o].boostZones
      inside == {i \in DOMAIN zones : Zone_contains(zones[i], g.grids[o].ship.position)}
  IN IF inside = {} THEN g
     ELSE [g EXCEPT !.grids[o].ship =
             Ship_applySpeedBoost(@, zones[CHOOSE i \in inside : \A j \in inside : i <= j]
                                       .boostMultiplier)]
GridState_checkBoostZones(g, o) ==
  [g EXCEPT !.grids[o].ship = BoostFrom(@, g.grids[o].boostZones, 1)]

\* the ship a hazard of grid o steers at, ship being grid o's own ship
TargetOf(g, o, s, h) ==
  IF h.type # SEEKER THEN NoTarget
  ELSE IF h.targetShip = None THEN NoTarget
  ELSE IF h.targetShip = o THEN Target(s)
  ELSE Target(g.grids[h.targetShip].ship)

\* mutant: the sweep drops only what is inactive
SweepActiveOnly(entries) == SelectSeq(entries, LAMBDA h : h.active)

\* the sweep at the end of GridState.update
Sweep(entries) == SelectSeq(entries, LAMBDA h : ~Hazard_isExpired(h) /\ h.active)

\* GridState.update of a grid that is not game over
GridState_updateLive(g, o) ==
  LET grid == g.grids[o]
      s1 == Ship_update(Ship_savePreviousState(grid.ship))
      g1 == [g EXCEPT
               !.grids[o].ship = s1,
               !.wormhole = Wormhole_update(@),
               !.grids[o].orbs = [i \in DOMAIN @ |-> Orb_update(@[i])],
               !.grids[o].hazards =
                   [i \in DOMAIN @ |-> Hazard_update(@[i], TargetOf(g, o, s1, @[i]))],
               !.grids[o].boostZones = [i \in DOMAIN @ |-> Zone_update(@[i])]]
      g2 == GridState_updateOrbSpawning(g1, o)
      g3 == GridState_checkCollisions(g2, o)
      g4 == GridState_checkBoostZones(g3, o)
      inZone == ~g4.grids[o].ship.isDead
                  /\ Wormhole_isInBankingZone(g4.grids[o].ship.position)
      decayed == MulDiv(g4.grids[o].screenShake, SCREEN_SHAKE_DECAY, 1000)
  IN [g4 EXCEPT
        !.grids[o].attackMessageTimer = IF @ > 0 THEN @ - 1 ELSE @,
        !.grids[o].bankingPulse =
            IF inZone THEN Min(@ + 50, 1000) ELSE Max(@ - 50, 0),
        !.grids[o].screenShake = IF decayed < 500 THEN 0 ELSE decayed,
        !.grids[o].hazards = Sweep(@),
        !.grids[o].boostZones = Sweep(@),
        !.grids[o].gameOver = g4.grids[o].ship.isDead]

\* mutant: a grid that is game over still ages its hazards and sweeps them
GridState_updateNoFreeze(g, o) ==
  IF g.grids[o].gameOver
    THEN [g EXCEPT !.grids[o].gameOverTimer = @ + 1,
                   !.grids[o].hazards =
                       Sweep([i \in DOMAIN @ |-> [@[i] EXCEPT !.lifetime = @ - 1]])]
    ELSE GridState_updateLive(g, o)

\* GridState.update
GridState_update(g, o) ==
  IF g.grids[o].gameOver THEN [g EXCEPT !.grids[o].gameOverTimer = @ + 1]
  ELSE GridState_updateLive(g, o)

\* GridState.markWinner
GridState_markWinner(g, o) ==
  [g EXCEPT !.grids[o].winner = o, !.grids[o].gameOver = TRUE]

\* GridState.reset
GridState_reset(g, o) ==
  [g EXCEPT
     !.grids[o].ship = Ship_reset(@, SpawnPoint.x, SpawnPoint.y),
     !.grids[o].hazards = <<>>,
     !.grids[o].boostZones = <<>>,
     !.grids[o].orbs = <<>>,
     !.grids[o].gameOver = FALSE,
     !.grids[o].gameOverTimer = 0,
     !.grids[o].screenShake = 0,
     !.grids[o].lastAttackResult = NoAttackResult,
     !.grids[o].attackMessageTimer = 0,
     !.grids[o].winner = None,
     !.grids[o].orbSpawnTimer = 0,
     !.log.resets = Append(@, o)]

\* --------------------------------------------------------------- BotAI
\* DIFFICULTY_SETTINGS: reactionDelay in ms, steeringAccuracy and bankThreshold in
\* thousandths, evadeDistance in pixels
DIFFICULTY_SETTINGS ==
  [ easy |-> [difficulty |-> "easy", reactionDelay |-> 250, steeringAccuracy |-> 700,
              bankThreshold |-> 800, evadeDistance |-> 100],
    medium |-> [difficulty |-> "medium", reactionDelay |-> 133, steeringAccuracy |-> 850,
                bankThreshold |-> 600, evadeDistance |-> 150],
    hard |-> [difficulty |-> "hard", reactionDelay |-> 33, steeringAccuracy |-> 970,
              bankThreshold |-> 400, evadeDistance |-> 200] ]

\* BotState
COLLECT == "collect"
BANK == "bank"
EVADE == "evade"
FLEE_NUKE == "flee_nuke"
BotState == {COLLECT, BANK, EVADE, FLEE_NUKE}

\* BotAI.CORNERS
CORNERS ==
  << Vec2(Px(50), Px(50)), Vec2(Px(WORLD_WIDTH - 50), Px(50)),
     Vec2(Px(50), Px(WORLD_HEIGHT - 50)), Vec2(Px(WORLD_WIDTH - 50), Px(WORLD_HEIGHT - 50)) >>

\* targetPosition and targetOrb: null, or a position (and an orb type)
NoPosition == [set |-> FALSE, at |-> Vec2_zero]
Position(at) == [set |-> TRUE, at |-> at]
NoOrb == [set |-> FALSE, position |-> Vec2_zero, type |-> None]
OrbAt(orb) == [set |-> TRUE, position |-> orb.position, type |-> orb.type]

\* new BotAI(grid, config), constructed at time now
NewBotAI(config, now) ==
  [ config |-> config, currentState |-> COLLECT, lastDecisionTime |-> now,
    targetOrb |-> NoOrb, targetPosition |-> NoPosition ]

\* the first index of a nonempty sequence of distances that holds its least value:
\* the loops keep the first nearest (dist < nearestDist)
FirstNearest(dists, among) ==
  CHOOSE i \in among :
    \A j \in among : dists[i] < dists[j] \/ (dists[i] = dists[j] /\ i <= j)

\* BotAI.findNearestHazard: the index of the nearest active hazard, or 0
BotAI_findNearestHazard(grid) ==
  LET actives == {i \in DOMAIN grid.hazards : grid.hazards[i].active}
      dists == [i \in DOMAIN grid.hazards |->
                  Distance(grid.hazards[i].position, grid.ship.position)]
  IN IF actives = {} THEN 0 ELSE FirstNearest(dists, actives)

\* BotAI.findNearestCorner
BotAI_findNearestCorner(s) ==
  LET dists == [i \in DOMAIN CORNERS |-> Distance(CORNERS[i], s.position)]
  IN CORNERS[FirstNearest(dists, DOMAIN CORNERS)]

\* BotAI.calculateEscapeVector; draw is the Math.random() it may use
BotAI_calculateEscapeVector(s, hazard, draw) ==
  LET away == IF DistLT(s.position, hazard.position, Px(10))
                THEN TurnVector(draw)
                ELSE Vec2_sub(s.position, hazard.position)
  IN Vec2_add(s.position, Vec2_mul(Vec2_normalize(away), Px(200)))

\* the while loops that bring an angle difference into -PI .. PI
NormalizeAngle(d) ==
  IF d > 3142 \/ d < -3142 THEN ((d + 3142) % 6283) - 3142 ELSE d

\* BotAI.steerToward: the ship of grid o with its inputs set
BotAI_steerToward(g, o, target) ==
  LET s == g.grids[o].ship
      toTarget == Vec2_sub(target, s.position)
      desiredAngle == Atan2Milli(toTarget.y, toTarget.x)
      angleDiff == NormalizeAngle(desiredAngle - AngleMilli(s.angle))
      accuracy == g.bots[o].config.steeringAccuracy
      noise == MulDiv(Draw(g, 0) - 500, 1000 - accuracy, 10000)
      adjustedDiff == MulDiv(angleDiff, accuracy, 1000) + noise
      turning == Abs(adjustedDiff) > 100
  IN [Drawn(g) EXCEPT
        !.grids[o].ship.rotatingLeft = turning /\ adjustedDiff < 0,
        !.grids[o].ship.rotatingRight = turning /\ adjustedDiff > 0,
        !.grids[o].ship.thrusting =
            Abs(angleDiff) < 1047 \/ ~DistLE(target, s.position, Px(400))]

\* BotAI.stopShip
BotAI_stopShip(g, o) ==
  [g EXCEPT !.grids[o].ship.thrusting = FALSE,
            !.grids[o].ship.rotatingLeft = FALSE,
            !.grids[o].ship.rotatingRight = FALSE]

\* hazards.find(h => h.type === NUKE && !h.detonated): is there one
HasLiveNuke(grid) ==
  \E i \in DOMAIN grid.hazards :
    grid.hazards[i].type = NUKE /\ ~grid.hazards[i].detonated

\* cargoFullness >= bankThreshold, in thousandths
CargoAtThreshold(s, config) ==
  (Ship_getCargoCount(s) * 1000) \div MAX_CARGO_SLOTS >= config.bankThreshold

\* mutant: a nearby hazard is looked at before the nuke
BotAI_checkStateTransitionsEvadeFirst(g, o) ==
  LET grid == g.grids[o]
      bot == g.bots[o]
      nearest == BotAI_findNearestHazard(grid)
      near == nearest # 0
                /\ DistLT(grid.hazards[nearest].position, grid.ship.position,
                          Px(bot.config.evadeDistance))
  IN IF near
       THEN [g EXCEPT !.bots[o].currentState = EVADE]
     ELSE IF HasLiveNuke(grid)
       THEN [g EXCEPT !.bots[o].currentState = FLEE_NUKE]
     ELSE IF CargoAtThreshold(grid.ship, bot.config)
       THEN [g EXCEPT !.bots[o].currentState = BANK]
     ELSE [g EXCEPT !.bots[o].currentState = COLLECT]

\* BotAI.checkStateTransitions
BotAI_checkStateTransitions(g, o) ==
  LET grid == g.grids[o]
      bot == g.bots[o]
      nearest == BotAI_findNearestHazard(grid)
      near == nearest # 0
                /\ DistLT(grid.hazards[nearest].position, grid.ship.position,
                          Px(bot.config.evadeDistance))
      \* calculateEscapeVector draws a direction when the hazard is on the ship
      drawn == IF near /\ DistLT(grid.ship.position, grid.hazards[nearest].position, Px(10))
                 THEN Drawn(g) ELSE g
  IN IF HasLiveNuke(grid)
       THEN IF bot.currentState # FLEE_NUKE
              THEN [g EXCEPT !.bots[o].currentState = FLEE_NUKE,
                             !.bots[o].targetPosition =
                                 Position(BotAI_findNearestCorner(grid.ship))]
              ELSE g
     ELSE IF near
       THEN IF bot.currentState # EVADE
              THEN [drawn EXCEPT
                      !.bots[o].currentState = EVADE,
                      !.bots[o].targetPosition =
                          Position(BotAI_calculateEscapeVector(
                                     grid.ship, grid.hazards[nearest], Draw(g, 0)))]
              ELSE g
     ELSE IF CargoAtThreshold(grid.ship, bot.config)
       THEN IF bot.currentState # BANK
              THEN [g EXCEPT !.bots[o].currentState = BANK,
                             !.bots[o].targetPosition = Position(WormholeCenter)]
              ELSE g
     ELSE IF bot.currentState # COLLECT
       THEN [g EXCEPT !.bots[o].currentState = COLLECT, !.bots[o].targetOrb = NoOrb]
       ELSE g

\* BotAI.executeCollect
BotAI_executeCollect(g, o) ==
  LET grid == g.grids[o]
      dists == [i \in DOMAIN grid.orbs |->
                  Distance(grid.orbs[i].position, grid.ship.position)]
      nearestOrb == grid.orbs[FirstNearest(dists, DOMAIN grid.orbs)]
      \* Date.now() / 2000, in thousandths of a radian
      angle == g.now \div 120
      patrolPos == Vec2(WormholeCenter.x + MulDiv(CosMilli(angle), Px(300), 1000),
                        WormholeCenter.y + MulDiv(SinMilli(angle), Px(300), 1000))
  IN IF Len(grid.orbs) > 0
       THEN BotAI_steerToward([g EXCEPT !.bots[o].targetOrb = OrbAt(nearestOrb)],
                              o, nearestOrb.position)
       ELSE BotAI_steerToward(g, o, patrolPos)

\* mutant: the bot stays in BANK after banking
BotAI_executeBankStay(g, o) ==
  IF DistLT(g.grids[o].ship.position, WormholeCenter, Px(WORMHOLE_BANKING_RADIUS))
    THEN GridState_bankOrbs(g, o)
    ELSE BotAI_steerToward(g, o, WormholeCenter)

\* BotAI.executeBank
BotAI_executeBank(g, o) ==
  IF DistLT(g.grids[o].ship.position, WormholeCenter, Px(WORMHOLE_BANKING_RADIUS))
    THEN [GridState_bankOrbs(g, o) EXCEPT !.bots[o].currentState = COLLECT]
    ELSE BotAI_steerToward(g, o, WormholeCenter)

\* BotAI.executeEvade
BotAI_executeEvade(g, o) ==
  LET grid == g.grids[o]
      nearest == BotAI_findNearestHazard(grid)
      margin == MulDiv(Px(g.bots[o].config.evadeDistance), 1500, 1000)
  IN IF nearest = 0
          \/ ~DistLE(grid.hazards[nearest].position, grid.ship.position, margin)
       THEN [g EXCEPT !.bots[o].currentState = COLLECT]
       ELSE BotAI_steerToward(
              IF DistLT(grid.ship.position, grid.hazards[nearest].position, Px(10))
                THEN Drawn(g) ELSE g,
              o,
              BotAI_calculateEscapeVector(grid.ship, grid.hazards[nearest], Draw(g, 0)))

\* BotAI.executeFleeNuke
BotAI_executeFleeNuke(g, o) ==
  LET grid == g.grids[o]
      corner == BotAI_findNearestCorner(grid.ship)
      aimed == [g EXCEPT !.bots[o].targetPosition = Position(corner)]
  IN IF ~HasLiveNuke(grid) THEN [g EXCEPT !.bots[o].currentState = COLLECT]
     ELSE IF DistLT(grid.ship.position, corner, Px(30)) THEN BotAI_stopShip(aimed, o)
     ELSE BotAI_steerToward(aimed, o, corner)

\* BotAI.executeStateBehavior
BotAI_executeStateBehavior(g, o) ==
  CASE g.bots[o].currentState = COLLECT -> BotAI_executeCollect(g, o)
    [] g.bots[o].currentState = BANK -> BotAI_executeBank(g, o)
    [] g.bots[o].currentState = EVADE -> BotAI_executeEvade(g, o)
    [] g.bots[o].currentState = FLEE_NUKE -> BotAI_executeFleeNuke(g, o)

\* BotAI.update
BotAI_update(g, o) ==
  IF g.grids[o].ship.isDead \/ g.grids[o].gameOver THEN BotAI_stopShip(g, o)
  ELSE
    LET checked == BotAI_checkStateTransitions(g, o)
    IN IF g.now - g.bots[o].lastDecisionTime >= Ms(g.bots[o].config.reactionDelay)
         THEN [BotAI_executeStateBehavior(checked, o) EXCEPT
                 !.bots[o].lastDecisionTime = g.now]
         ELSE checked

\* -------------------------------------------------------------- Bullet
\* new Bullet(position, angle)
NewBullet(position, k) ==
  [ position |-> position, velocity |-> Vec2_mul(Vec2_fromAngle(k), Px(BULLET_SPEED)),
    angle |-> k, lifetime |-> BULLET_LIFETIME, active |-> TRUE ]

Bullet_update(b) ==
  IF ~b.active THEN b
  ELSE [b EXCEPT
          !.position = Vec2(WrapAxis(b.position.x + b.velocity.x, Px(WORLD_WIDTH)),
                            WrapAxis(b.position.y + b.velocity.y, Px(WORLD_HEIGHT))),
          !.lifetime = @ - 1,
          !.active = ~(b.lifetime - 1 <= 0)]

Bullet_collidesWith(b, position, radius) ==
  b.active /\ DistLE(b.position, position, Px(BULLET_RADIUS) + radius)

Bullet_isExpired(b) == b.lifetime <= 0 \/ ~b.active

\* ---------------------------------------------------------------- Game
\* the inner loop of updateBullets: the last active hazard the bullet collides with, or 0
LastHit(bullet, hazards) ==
  LET hits == {h \in DOMAIN hazards :
                 hazards[h].active
                   /\ Bullet_collidesWith(bullet, hazards[h].position, hazards[h].radius)}
  IN IF hits = {} THEN 0 ELSE CHOOSE h \in hits : \A j \in hits : h >= j

\* the outer loop of updateBullets, from bullet b down to the first
RECURSIVE ShootFrom(_, _)
ShootFrom(g, b) ==
  IF b < 1 THEN g
  ELSE
    LET bullet == g.bullets[b]
        h == LastHit(bullet, g.grids[PLAYER].hazards)
    IN IF ~bullet.active \/ h = 0 THEN ShootFrom(g, b - 1)
       ELSE ShootFrom(
              Game_addKillFeed(
                [g EXCEPT !.grids[PLAYER].hazards[h].active = FALSE,
                          !.bullets[b].active = FALSE,
                          !.log.destroyed = Append(@, [bullet |-> b, hazard |-> h])],
                Msg("[DEFENSE] Target destroyed!", "", "", 0)),
              b - 1)

\* mutant: the hazards that were hit stay in the player's collection
Game_updateBulletsLitter(g) ==
  LET moved == [g EXCEPT !.bullets = [b \in DOMAIN @ |-> Bullet_update(@[b])]]
      shot == ShootFrom(moved, Len(moved.bullets))
  IN [shot EXCEPT
        !.bullets = SelectSeq(@, LAMBDA b : ~Bullet_isExpired(b) /\ b.active)]

\* Game.updateBullets
Game_updateBullets(g) ==
  LET moved == [g EXCEPT !.bullets = [b \in DOMAIN @ |-> Bullet_update(@[b])]]
      shot == ShootFrom(moved, Len(moved.bullets))
  IN [shot EXCEPT
        !.bullets = SelectSeq(@, LAMBDA b : ~Bullet_isExpired(b) /\ b.active),
        !.grids[PLAYER].hazards = SelectSeq(@, LAMBDA h : h.active)]

\* Game.handleShoot
Game_handleShoot(g) ==
  LET s == g.grids[PLAYER].ship
      offset == Vec2_mul(Vec2_fromAngle(s.angle), Px(15))
  IN IF g.gameOver \/ s.isDead THEN g
     ELSE IF g.now - g.lastShotTime < Ms(SHOOT_COOLDOWN) THEN g
     ELSE [g EXCEPT !.lastShotTime = g.now,
                    !.bullets = Append(@, NewBullet(Vec2_add(s.position, offset), s.angle))]

\* mutant: a slot is banked from anywhere
Game_handleBankSlotAnywhere(g, slotIndex) ==
  LET s == g.grids[PLAYER].ship
      orbToBank == s.cargo[slotIndex]
      removed == [g EXCEPT !.grids[PLAYER].ship = Ship_removeCargoAt(s, slotIndex)]
      attackResult == translateCargoToAttack(<<orbToBank>>, PLAYER, WormholeCenter,
                                             g.seed + g.draws)
      sent == Game_spawnAttackToRandomTarget(Drawn(removed), PLAYER, attackResult)
  IN IF g.gameOver \/ s.isDead THEN g
     ELSE IF slotIndex >= MAX_CARGO_SLOTS \/ s.cargo[slotIndex] = None
       THEN Game_addKillFeed(g, Msg("[SYSTEM] Slot empty!", "", "", slotIndex + 1))
     ELSE Game_addKillFeed(sent, Msg("[UPLOAD] Slot", "", attackResult.description,
                                     slotIndex + 1))

\* Game.handleBankSlot
Game_handleBankSlot(g, slotIndex) ==
  LET s == g.grids[PLAYER].ship
      orbToBank == s.cargo[slotIndex]
      removed == [g EXCEPT !.grids[PLAYER].ship = Ship_removeCargoAt(s, slotIndex)]
      attackResult == translateCargoToAttack(<<orbToBank>>, PLAYER, WormholeCenter,
                                             g.seed + g.draws)
      sent == Game_spawnAttackToRandomTarget(Drawn(removed), PLAYER, attackResult)
  IN IF g.gameOver \/ s.isDead THEN g
     ELSE IF ~Wormhole_isInBankingZone(s.position)
       THEN Game_addKillFeed(g, Msg("[SYSTEM] Must be in upload zone!", "", "", 0))
     ELSE IF slotIndex >= MAX_CARGO_SLOTS \/ s.cargo[slotIndex] = None
       THEN Game_addKillFeed(g, Msg("[SYSTEM] Slot empty!", "", "", slotIndex + 1))
     ELSE Game_addKillFeed(sent, Msg("[UPLOAD] Slot", "", attackResult.description,
                                     slotIndex + 1))

\* BotAI declares no reset method: bot.reset() in Game.restart is a call of undefined
BotAI_hasReset == FALSE

\* the for-loop over the grids in Game.restart
RECURSIVE ResetGrids(_, _)
ResetGrids(g, i) ==
  IF i > Len(GridOrder) THEN g ELSE ResetGrids(GridState_reset(g, GridOrder[i]), i + 1)

\* Game.restart; thrown is the TypeError raised by the first bot.reset()
Game_restart(g) ==
  LET gridsReset == [ResetGrids(g, 1) EXCEPT !.log.restarts = @ + 1]
  IN IF ~BotAI_hasReset
       THEN [gridsReset EXCEPT !.thrown = "bot.reset is not a function"]
       ELSE [gridsReset EXCEPT !.bullets = <<>>, !.gameOver = FALSE, !.winner = None,
                               !.killFeed = <<>>, !.roundNumber = @ + 1]

\* InputHandler.handleKeyDown, with the callbacks Game.setupInput installs
InputHandler_handleKeyDown(g, key) ==
  IF key \in g.input.keys THEN g
  ELSE
    LET down == [g EXCEPT !.input.keys = @ \cup {key}]
    IN CASE key = "w" -> [down EXCEPT !.grids[PLAYER].ship.thrusting = TRUE]
         [] key = "a" -> [down EXCEPT !.grids[PLAYER].ship.rotatingLeft = TRUE]
         [] key = "d" -> [down EXCEPT !.grids[PLAYER].ship.rotatingRight = TRUE]
         [] key = " " -> Game_handleShoot([down EXCEPT !.input.actionPressed = TRUE])
         [] key = "1" -> Game_handleBankSlot(down, 0)
         [] key = "2" -> Game_handleBankSlot(down, 1)
         [] key = "3" -> Game_handleBankSlot(down, 2)
         [] key = "4" -> Game_handleBankSlot(down, 3)
         [] OTHER -> down

\* InputHandler.handleKeyUp
InputHandler_handleKeyUp(g, key) ==
  LET up == [g EXCEPT !.input.keys = @ \ {key}]
  IN CASE key = "w" -> [up EXCEPT !.grids[PLAYER].ship.thrusting = FALSE]
       [] key = "a" -> [up EXCEPT !.grids[PLAYER].ship.rotatingLeft = FALSE]
       [] key = "d" -> [up EXCEPT !.grids[PLAYER].ship.rotatingRight = FALSE]
       [] OTHER -> up

\* what one step emitted: bank events, attack deliveries, grids reset, restarts,
\* hazards shot, kill-feed messages dropped
NoLog == [bankEvents |-> <<>>, deliveries |-> <<>>, resets |-> <<>>, restarts |-> 0,
          destroyed |-> <<>>, popped |-> 0, shipsDestroyed |-> <<>>]

\* new Game(canvasId) with its default of 2 bots, then start(), at time now
NewGame(now, seed) ==
  [ grids |-> [o \in Owners |->
                 CASE o = "player" ->
                        NewGridState(o, TRUE, Px(WORLD_WIDTH) \div 2,
                                     Px(WORLD_HEIGHT) \div 2 + Px(200))
                   [] o = "bot-1" ->
                        NewGridState(o, FALSE, Px(WORLD_WIDTH) \div 2 + Px(200),
                                     Px(WORLD_HEIGHT) \div 2)
                   [] o = "bot-2" ->
                        NewGridState(o, FALSE, Px(WORLD_WIDTH) \div 2 - Px(200),
                                     Px(WORLD_HEIGHT) \div 2)],
    bots |-> [o \in BotOwners |->
                NewBotAI(IF o = "bot-1" THEN DIFFICULTY_SETTINGS.medium
                         ELSE DIFFICULTY_SETTINGS.easy, now)],
    wormhole |-> NewWormhole,
    bullets |-> <<>>, lastShotTime |-> 0,
    lastTime |-> now, accumulator |-> 0, running |-> TRUE,
    gameOver |-> FALSE, winner |-> None, roundNumber |-> 1, killFeed |-> <<>>,
    input |-> [keys |-> {}, actionPressed |-> FALSE],
    thrown |-> None,
    now |-> now, seed |-> seed, draws |-> 0,
    log |-> NoLog ]

\* ------------------------------------------------ values of idle variables
NoCall == [op |-> "none", value |-> None]
Call(op, value) == [op |-> op, value |-> value]
NoAttackIn == [cargo |-> <<>>, shipId |-> None, hub |-> Vec2_zero, seed |-> 0]
NoAttackOut == [hazards |-> <<>>, boostZones |-> <<>>, tier |-> 0, description |-> ""]
NoHazard == [type |-> None]
NoProbe == [position |-> Vec2_zero, radius |-> 0]
NoHit == [called |-> FALSE, value |-> FALSE]
Hit(value) == [called |-> TRUE, value |-> value]

\* no Game constructed
NoGame == [running |-> FALSE]
At(at, i) == [at |-> at, i |-> i]
NoMeter == [frames |-> 0, keys |-> 0, steps |-> 0]
GameIdle == game = NoGame /\ pc = At("off", 0) /\ meter = NoMeter

ShipIdle == ship = NewShip(SpawnPoint.x, SpawnPoint.y, 0) /\ ret = NoCall /\ hitAge = -1
AttackIdle == attackIn = NoAttackIn /\ attackOut = NoAttackOut
HazardIdle == mine = NoHazard /\ nuke = NoHazard /\ probe = NoProbe /\ hit = NoHit

\* ------------------------------------ Ship: cargo, lives, invulnerability
\* orb types picked up in this specification
ShipOrbs == {RED, GOLD}

InitShip ==
  /\ ShipIdle
  /\ clock = 0
  /\ GameIdle
  /\ AttackIdle
  /\ HazardIdle

ShipRest == UNCHANGED <<clock, attackIn, attackOut, mine, nuke, probe, hit, game, pc, meter>>

AgeAfterUpdate ==
  IF hitAge < 0 THEN hitAge ELSE Min(hitAge + 1, INVULNERABILITY_TIME + 1)

ShipTick ==
  /\ ship' = Ship_update(ship)
  /\ ret' = Call("update", None)
  /\ hitAge' = AgeAfterUpdate
  /\ ShipRest

TakeDamage ==
  /\ ship' = Ship_takeDamage(ship)
  /\ ret' = Call("takeDamage", Ship_takeDamageRet(ship))
  /\ hitAge' = IF ship'.lives < ship.lives THEN 0 ELSE hitAge
  /\ ShipRest

AddCargo ==
  \E orbType \in ShipOrbs :
    /\ ship' = Ship_addCargo(ship, orbType)
    /\ ret' = Call("addCargo", Ship_addCargoRet(ship))
    /\ UNCHANGED hitAge
    /\ ShipRest

RemoveCargoAt ==
  \E slotIndex \in -1 .. MAX_CARGO_SLOTS :
    /\ ship' = Ship_removeCargoAt(ship, slotIndex)
    /\ ret' = Call("removeCargoAt", Ship_removeCargoAtRet(ship, slotIndex))
    /\ UNCHANGED hitAge
    /\ ShipRest

ClearCargo ==
  /\ ship' = Ship_clearCargo(ship)
  /\ ret' = Call("clearCargo", Ship_clearCargoRet(ship))
  /\ UNCHANGED hitAge
  /\ ShipRest

Reset ==
  /\ ship' = Ship_reset(ship, SpawnPoint.x, SpawnPoint.y)
  /\ ret' = Call("reset", None)
  /\ hitAge' = -1
  /\ ShipRest

NextShip ==
  \/ ShipTick
  \/ TakeDamage
  \/ AddCargo
  \/ RemoveCargoAt
  \/ ClearCargo
  \/ Reset

SpecShip == InitShip /\ [][NextShip]_vars

\* ------------------------------------------------- Ship: flight and wrap
\* where a flight starts: inside the world, at rest or at cruising speed
FlightXs == {0, Px(3), Px(WORLD_WIDTH) - 496, Px(WORLD_WIDTH) - Px(1)}
FlightYs == {0, SpawnPoint.y, Px(WORLD_HEIGHT) - 496}
FlightVelocities == {Vec2_zero, Vec2(496, 0), Vec2(-496, 0), Vec2(0, 496), Vec2(0, -496)}
\* headings: up (the constructor's) and right
FlightAngles == {0, 26}
BoostMultipliers == {1500, 2000}

InitFlight ==
  /\ \E x \in FlightXs, y \in FlightYs, v \in FlightVelocities, k \in FlightAngles :
       ship = [NewShip(x, y, k) EXCEPT !.velocity = v]
  /\ ret = NoCall
  /\ hitAge = -1
  /\ clock = 0
  /\ GameIdle
  /\ AttackIdle
  /\ HazardIdle

FlightRest ==
  UNCHANGED <<hitAge, attackIn, attackOut, mine, nuke, probe, hit, game, pc, meter>>

SetThrust ==
  /\ clock < MaxTicks
  /\ ship' = [ship EXCEPT !.thrusting = ~@]
  /\ UNCHANGED <<ret, clock>>
  /\ FlightRest

SetRotateLeft ==
  /\ clock < MaxTicks
  /\ ship' = [ship EXCEPT !.rotatingLeft = ~@]
  /\ UNCHANGED <<ret, clock>>
  /\ FlightRest

SetRotateRight ==
  /\ clock < MaxTicks
  /\ ship' = [ship EXCEPT !.rotatingRight = ~@]
  /\ UNCHANGED <<ret, clock>>
  /\ FlightRest

ApplySpeedBoost ==
  /\ clock < MaxTicks
  /\ \E multiplier \in BoostMultipliers :
       ship' = Ship_applySpeedBoost(ship, multiplier)
  /\ UNCHANGED <<ret, clock>>
  /\ FlightRest

Fly ==
  /\ clock < MaxTicks
  /\ ship' = Ship_update(Ship_savePreviousState(ship))
  /\ ret' = Call("update", None)
  /\ clock' = clock + 1
  /\ FlightRest

NextFlight ==
  \/ SetThrust
  \/ SetRotateLeft
  \/ SetRotateRight
  \/ ApplySpeedBoost
  \/ Fly

SpecFlight == InitFlight /\ [][NextFlight]_vars

\* ------------------------------------------------------- claims: Ship
InWorld(p) ==
  /\ 0 <= p.x /\ p.x < Px(WORLD_WIDTH)
  /\ 0 <= p.y /\ p.y < Px(WORLD_HEIGHT)

\* C1: after Ship.update() the position satisfies 0 <= x < WORLD_WIDTH and
\* 0 <= y < WORLD_HEIGHT.
C1_WrapHalfOpen == clock > 0 => InWorld(ship.position)

\* C2: the cargo always has its 4 slots, so never more than 4 occupied ones, and
\* addCargo on a full ship returns false and leaves every slot unchanged.
C2_CargoBound ==
  /\ [](/\ DOMAIN ship.cargo = 0 .. MAX_CARGO_SLOTS - 1
        /\ Ship_getCargoCount(ship) <= MAX_CARGO_SLOTS)
  /\ [][(ret'.op = "addCargo" /\ Ship_isCargoFull(ship))
          => (ret'.value = FALSE /\ ship' = ship)]_vars

C2_Witness ==
  /\ ret.op = "addCargo"
  /\ ret.value = FALSE
  /\ Ship_isCargoFull(ship)
  /\ \A i \in DOMAIN ship.cargo : ship.cargo[i] \in ShipOrbs

\* C3: a takeDamage() call made fewer than INVULNERABILITY_TIME updates after the
\* call that cost a life returns false and changes nothing: one life is lost, not two.
C3_DamageOnce ==
  [][(ret'.op = "takeDamage" /\ hitAge >= 0 /\ hitAge < INVULNERABILITY_TIME)
       => (ret'.value = FALSE /\ ship' = ship /\ hitAge' = hitAge)]_vars

C3_Witness ==
  /\ ret.op = "takeDamage"
  /\ ret.value = FALSE
  /\ hitAge = INVULNERABILITY_TIME - 1
  /\ ship.lives = MAX_LIVES - 1
  /\ ~ship.isDead

\* ------------------------------------------------- the attack table alone
GoldRun(k) == [i \in 1 .. k |-> GOLD]
FreeCargos == UNION {[1 .. m -> OrbType] : m \in 0 .. MaxCargoLen}
Cargos == {GoldRun(k) \o c : k \in 0 .. MaxGoldRun, c \in FreeCargos}
\* hub positions handed in: the wormhole's, and another one
Hubs == {WormholeCenter, Vec2(Px(100), Px(100))}

InitAttack ==
  /\ ShipIdle
  /\ clock = 0
  /\ GameIdle
  /\ \E cargo \in Cargos, hub \in Hubs, seed \in 0 .. MaxSeed :
       attackIn = [cargo |-> cargo, shipId |-> "player", hub |-> hub, seed |-> seed]
  /\ attackOut = NoAttackOut
  /\ HazardIdle

Translate ==
  /\ attackOut = NoAttackOut
  /\ attackOut' = translateCargoToAttack(attackIn.cargo, attackIn.shipId,
                                         attackIn.hub, attackIn.seed)
  /\ UNCHANGED <<ship, ret, hitAge, clock, attackIn, mine, nuke, probe, hit, game, pc,
                 meter>>

NextAttack == Translate

SpecAttack == InitAttack /\ [][NextAttack]_vars

\* ----------------------------------------------- claims: the attack table
Translated == attackOut # NoAttackOut
Kinds(result) == {result.hazards[i].type : i \in DOMAIN result.hazards}
HazardsOf(result, type) ==
  Cardinality({i \in DOMAIN result.hazards : result.hazards[i].type = type})
AsteroidsOfRadius(result, radius) ==
  Cardinality({i \in DOMAIN result.hazards :
                 /\ result.hazards[i].type = ASTEROID
                 /\ result.hazards[i].radius = radius})
\* a result of the given tier whose payload is only hazards of the given kinds
\* and the given number of boost zones
Payload(result, tier, kinds, zones) ==
  /\ result.tier = tier
  /\ Kinds(result) = kinds
  /\ Len(result.boostZones) = zones

\* C4: the priority ladder: the first matching rule decides the result.
C4_Ladder ==
  Translated =>
    LET n(t) == Count(attackIn.cargo, t)
        out == attackOut
    IN IF n(GOLD) >= 8 THEN Payload(out, TIER_4, {NUKE}, 0)
       ELSE IF n(RED) >= 4 THEN Payload(out, TIER_3, {ASTEROID}, 0)
       ELSE IF n(BLUE) >= 4 THEN Payload(out, TIER_3, {SEEKER}, 0)
       ELSE IF n(GREEN) >= 4 THEN Payload(out, TIER_3, {MINE}, 1)
       ELSE IF n(RED) >= 1 /\ n(BLUE) >= 1 /\ n(GREEN) >= 1
         THEN Payload(out, TIER_2, {ASTEROID, SEEKER, MINE}, 0)
       ELSE IF n(RED) >= 3 THEN Payload(out, TIER_2, {ASTEROID}, 0)
       ELSE IF n(BLUE) >= 3 THEN Payload(out, TIER_2, {SEEKER}, 0)
       ELSE IF n(GREEN) >= 3 THEN Payload(out, TIER_2, {MINE}, 0)
       ELSE IF n(RED) >= 2 THEN Payload(out, TIER_1_5, {ASTEROID}, 0)
       ELSE IF n(BLUE) >= 2 THEN Payload(out, TIER_1_5, {SEEKER}, 0)
       ELSE IF n(GREEN) >= 2 THEN Payload(out, TIER_1_5, {}, 1)
       ELSE IF n(RED) >= 1 THEN Payload(out, TIER_1, {ASTEROID}, 0)
       ELSE IF n(BLUE) >= 1 THEN Payload(out, TIER_1, {SEEKER}, 0)
       ELSE IF n(GREEN) >= 1 THEN Payload(out, TIER_1, {}, 1)
       ELSE Payload(out, TIER_1, {}, 0)

\* [RED,RED,RED,BLUE,GREEN] has resolved to the chaos storm
C4_Witness ==
  /\ attackIn.cargo = <<RED, RED, RED, BLUE, GREEN>>
  /\ attackOut.tier = TIER_2
  /\ attackOut.description = "CHAOS STORM!"

\* C5: 8 gold orbs give tier 4 with one hazard, a Nuke at the hub position handed
\* in, and no boost zone.
C5_GoldNuke ==
  (Translated /\ attackIn.cargo = GoldRun(8)) =>
    /\ attackOut.tier = TIER_4
    /\ Len(attackOut.hazards) = 1
    /\ attackOut.hazards[1].type = NUKE
    /\ attackOut.hazards[1].position = attackIn.hub
    /\ attackOut.boostZones = <<>>

C5_Witness ==
  /\ attackIn.cargo = GoldRun(8)
  /\ attackIn.hub # WormholeCenter
  /\ Translated
  /\ attackOut.hazards[1].type = NUKE

\* C6: [RED,RED,RED,RED] gives tier 3 with 12 asteroids, 8 of radius 20 and 4 of
\* radius 35, and no boost zone.
C6_MegaRed ==
  (Translated /\ attackIn.cargo = <<RED, RED, RED, RED>>) =>
    /\ attackOut.tier = TIER_3
    /\ Len(attackOut.hazards) = 12
    /\ HazardsOf(attackOut, ASTEROID) = 12
    /\ AsteroidsOfRadius(attackOut, Px(20)) = 8
    /\ AsteroidsOfRadius(attackOut, Px(35)) = 4
    /\ attackOut.boostZones = <<>>

C6_Witness ==
  /\ attackIn.cargo = <<RED, RED, RED, RED>>
  /\ Translated
  /\ Len(attackOut.hazards) = 12

\* C7: one RED, one BLUE and one GREEN, in any order, give tier 2 with 2 asteroids,
\* 1 seeker drone and 2 mines and no boost zone.
C7_ChaosBundle ==
  (/\ Translated
   /\ Len(attackIn.cargo) = 3
   /\ \A t \in {RED, BLUE, GREEN} : Count(attackIn.cargo, t) = 1) =>
    /\ attackOut.tier = TIER_2
    /\ Len(attackOut.hazards) = 5
    /\ HazardsOf(attackOut, ASTEROID) = 2
    /\ HazardsOf(attackOut, SEEKER) = 1
    /\ HazardsOf(attackOut, MINE) = 2
    /\ attackOut.boostZones = <<>>

C7_Witness ==
  /\ attackIn.cargo = <<GREEN, RED, BLUE>>
  /\ Translated
  /\ attackOut.tier = TIER_2

\* C8: [BLUE] alone gives tier 1 with one hazard, a SeekerDrone, and no boost zone.
C8_SingleBlue ==
  (Translated /\ attackIn.cargo = <<BLUE>>) =>
    /\ attackOut.tier = TIER_1
    /\ Len(attackOut.hazards) = 1
    /\ attackOut.hazards[1].type = SEEKER
    /\ attackOut.boostZones = <<>>

C8_Witness ==
  /\ attackIn.cargo = <<BLUE>>
  /\ Translated
  /\ attackOut.hazards[1].type = SEEKER

\* ------------------------------------------------------------ a Mine alone
\* the ship stays where it is: at these offsets (in pixels) from the hazard
ProbeOffsets ==
  { <<0, 0>>, <<10, 0>>, <<11, 0>>, <<0, 20>>, <<15, 20>>, <<26, 0>>, <<0, -40>>,
    <<-59, 0>>, <<36, 48>>, <<61, 0>>, <<45, 60>>, <<76, 0>>, <<-90, 0>> }
ProbeAt(center, offset) ==
  [ position |-> Vec2(center.x + Px(offset[1]), center.y + Px(offset[2])),
    radius |-> Px(SHIP_COLLISION_RADIUS) ]
\* spawnMine puts a mine 250 to 450 pixels from the hub
MinePositions == {getRandomPosition(WormholeCenter, Px(250), seed, 0) : seed \in 0 .. MaxSeed}

HazardRest == UNCHANGED <<ship, ret, hitAge, attackIn, attackOut, game, pc, meter>>

InitMine ==
  /\ ShipIdle
  /\ clock = 0
  /\ GameIdle
  /\ AttackIdle
  /\ \E position \in MinePositions, offset \in ProbeOffsets :
       /\ mine = NewMine(position)
       /\ probe = ProbeAt(position, offset)
  /\ nuke = NoHazard
  /\ hit = NoHit

\* GridState.update() updates the hazards it holds: those neither expired nor inactive
MineUpdate ==
  /\ mine.active /\ ~Hazard_isExpired(mine)
  /\ mine' = Mine_update(mine)
  /\ clock' = clock + 1
  /\ hit' = NoHit
  /\ UNCHANGED <<nuke, probe>>
  /\ HazardRest

MineCollidesWith ==
  /\ hit' = Hit(Mine_collidesWith(mine, probe.position, probe.radius))
  /\ UNCHANGED <<mine, clock, nuke, probe>>
  /\ HazardRest

\* a bullet hit: Game.updateBullets sets hazard.active = false
MineShot ==
  /\ mine.active
  /\ mine' = [mine EXCEPT !.active = FALSE]
  /\ hit' = NoHit
  /\ UNCHANGED <<clock, nuke, probe>>
  /\ HazardRest

NextMine ==
  \/ MineUpdate
  \/ MineCollidesWith
  \/ MineShot

SpecMine == InitMine /\ [][NextMine]_vars

\* ------------------------------------------------------------ a Nuke alone
NukeProbeOffsets ==
  { <<0, 0>>, <<40, 0>>, <<30, 40>>, <<50, 0>>, <<51, 0>>, <<36, 48>>, <<0, -60>>,
    <<48, 64>>, <<-80, 0>>, <<81, 0>>, <<0, 100>>, <<200, 0>>, <<-389, 0>>,
    <<390, 0>>, <<391, 0>>, <<-600, -400>>, <<-552, -336>>, <<600, 400>>,
    <<-600, 400>>, <<521, -400>>, <<500, -350>> }

InitNuke ==
  /\ ShipIdle
  /\ clock = 0
  /\ GameIdle
  /\ AttackIdle
  /\ mine = NoHazard
  /\ nuke = spawnNuke(WormholeCenter)
  /\ \E offset \in NukeProbeOffsets : probe = ProbeAt(WormholeCenter, offset)
  /\ hit = NoHit

NukeUpdate ==
  /\ nuke.active /\ ~Hazard_isExpired(nuke)
  /\ nuke' = Nuke_update(nuke)
  /\ clock' = clock + 1
  /\ hit' = NoHit
  /\ UNCHANGED <<mine, probe>>
  /\ HazardRest

NukeCollidesWith ==
  /\ hit' = Hit(Nuke_collidesWith(nuke, probe.position, probe.radius))
  /\ UNCHANGED <<nuke, clock, mine, probe>>
  /\ HazardRest

NukeShot ==
  /\ nuke.active
  /\ nuke' = [nuke EXCEPT !.active = FALSE]
  /\ hit' = NoHit
  /\ UNCHANGED <<clock, mine, probe>>
  /\ HazardRest

NextNuke ==
  \/ NukeUpdate
  \/ NukeCollidesWith
  \/ NukeShot

SpecNuke == InitNuke /\ [][NextNuke]_vars

\* ---------------------------------------------------- claims: Mine, Nuke
\* the arming delay has elapsed after MINE_ARMING_TIME updates
ArmingElapsed == clock >= MINE_ARMING_TIME

\* C9 as stated: at a distance d with body radius < d < blast radius, collidesWith
\* is false before the arming delay has elapsed and true after, on an active mine.
C9_MineArmingBodyRadius ==
  (/\ hit.called
   /\ mine.active
   /\ ~DistLE(mine.position, probe.position, mine.radius)
   /\ DistLT(mine.position, probe.position, mine.armingRadius))
    => (hit.value = ArmingElapsed)

\* C9, amended: at a distance d with body radius + ship radius < d < blast radius,
\* collidesWith is false before the arming delay has elapsed and true after.
C9_MineArming ==
  (/\ hit.called
   /\ mine.active
   /\ ~DistLE(mine.position, probe.position, mine.radius + probe.radius)
   /\ DistLT(mine.position, probe.position, mine.armingRadius))
    => (hit.value = ArmingElapsed)

C9_Witness ==
  /\ hit = Hit(TRUE)
  /\ mine.active
  /\ clock = MINE_ARMING_TIME
  /\ ~DistLE(mine.position, probe.position, mine.radius + probe.radius)
  /\ DistLT(mine.position, probe.position, mine.armingRadius)

\* C10: a detonated, active Nuke spares every position within WORMHOLE_RADIUS of
\* the hub or within 80 units of a world corner, and hits every other position
\* inside its current blast radius.
C10_NukeSafeZones ==
  (hit.called /\ nuke.detonated /\ nuke.active) =>
    IF \/ Wormhole_isInWormhole(probe.position)
       \/ \E corner \in WorldCorners : DistLE(probe.position, corner, Px(80))
      THEN hit.value = FALSE
      ELSE DistLE(nuke.position, probe.position, nuke.radius) => hit.value = TRUE


\* ------------------------------------------------------- the game loop
\* the variables of the specifications above, idle while a game runs
OldIdle == ShipIdle /\ clock = 0 /\ AttackIdle /\ HazardIdle
OldRest == UNCHANGED <<ship, ret, hitAge, clock, attackIn, attackOut, mine, nuke, probe, hit>>

\* performance.now() when the Game is constructed and started
StartTime == Ms(1000)

\* every step begins with an empty log
Fresh(g) == [g EXCEPT !.log = NoLog]

\* while (this.accumulator >= PHYSICS_DT): the next position of the loop
LoopFrom(accumulator) == IF accumulator >= PHYSICS_DT THEN At("hub", 0) ELSE At("idle", 0)

\* mutant: the accumulator is not capped
FrameNoCap(delta) ==
  /\ pc.at = "idle"
  /\ game.running
  /\ meter.frames > 0
  /\ LET currentTime == game.now + delta
         deltaTime == currentTime - game.lastTime
         accumulator == game.accumulator + deltaTime
     IN /\ game' = [Fresh(game) EXCEPT !.now = currentTime, !.lastTime = currentTime,
                                       !.accumulator = accumulator]
        /\ pc' = LoopFrom(accumulator)
  /\ meter' = [meter EXCEPT !.frames = @ - 1, !.steps = 0]
  /\ OldRest

\* Game.loop(currentTime), up to the while loop; delta is the time since the last frame
Frame(delta) ==
  /\ pc.at = "idle"
  /\ game.running
  /\ meter.frames > 0
  /\ LET currentTime == game.now + delta
         deltaTime == currentTime - game.lastTime
         accumulator == Min(game.accumulator + deltaTime, PHYSICS_DT * 10)
     IN /\ game' = [Fresh(game) EXCEPT !.now = currentTime, !.lastTime = currentTime,
                                       !.accumulator = accumulator]
        /\ pc' = LoopFrom(accumulator)
  /\ meter' = [meter EXCEPT !.frames = @ - 1, !.steps = 0]
  /\ OldRest

\* this.sharedWormhole.update(), the first call of a physics step
HubUpdate ==
  /\ pc.at = "hub"
  /\ game' = [Fresh(game) EXCEPT !.wormhole = Wormhole_update(@)]
  /\ pc' = At("grid", 1)
  /\ meter' = [meter EXCEPT !.steps = @ + 1]
  /\ OldRest

\* grid.update(), for the grids in turn
GridUpdate ==
  /\ pc.at = "grid"
  /\ game' = GridState_update(Fresh(game), GridOrder[pc.i])
  /\ pc' = IF pc.i < Len(GridOrder) THEN At("grid", pc.i + 1) ELSE At("bot", 1)
  /\ UNCHANGED meter
  /\ OldRest

\* bot.update(), for the bots in turn
BotUpdate ==
  /\ pc.at = "bot"
  /\ game' = BotAI_update(Fresh(game), BotOrder[pc.i])
  /\ pc' = IF pc.i < Len(BotOrder) THEN At("bot", pc.i + 1) ELSE At("bullets", 0)
  /\ UNCHANGED meter
  /\ OldRest

\* this.updateBullets()
UpdateBullets ==
  /\ pc.at = "bullets"
  /\ game' = Game_updateBullets(Fresh(game))
  /\ pc' = At("restart", 0)
  /\ UNCHANGED meter
  /\ OldRest

\* mutant: the catch block swallows the exception without a line in the feed
Game_catchSilent(g) == [g EXCEPT !.thrown = None]

\* catch (error) of the loop: the exception becomes an [ERROR] line of the kill feed
Game_catch(g) ==
  Game_addKillFeed([g EXCEPT !.thrown = None], Msg("[ERROR]", "", g.thrown, 0))

\* mutant: any action press restarts, game over or not
RestartCheckAnyPress ==
  /\ pc.at = "restart"
  /\ LET pressed == game.input.actionPressed
         asked == [Fresh(game) EXCEPT !.input.actionPressed = FALSE]
         done == IF pressed THEN Game_restart(asked) ELSE asked
     IN IF done.thrown # None
          THEN /\ game' = Game_catch(done)
               /\ pc' = At("idle", 0)
          ELSE /\ game' = [done EXCEPT !.accumulator = @ - PHYSICS_DT]
               /\ pc' = LoopFrom(done.accumulator - PHYSICS_DT)
  /\ UNCHANGED meter
  /\ OldRest

\* if (this.gameOver && this.input.isActionPressed()) this.restart(); then
\* this.accumulator -= PHYSICS_DT.  An exception leaves the while loop for the catch
\* block, which adds an [ERROR] line to the kill feed; the next frame is requested.
RestartCheck ==
  /\ pc.at = "restart"
  /\ LET pressed == game.gameOver /\ game.input.actionPressed
         asked == [Fresh(game) EXCEPT !.input.actionPressed = IF game.gameOver THEN FALSE ELSE @]
         done == IF pressed THEN Game_restart(asked) ELSE asked
     IN IF done.thrown # None
          THEN /\ game' = Game_catch(done)
               /\ pc' = At("idle", 0)
          ELSE /\ game' = [done EXCEPT !.accumulator = @ - PHYSICS_DT]
               /\ pc' = LoopFrom(done.accumulator - PHYSICS_DT)
  /\ UNCHANGED meter
  /\ OldRest

\* one call of the while loop's body
LoopStep ==
  \/ HubUpdate
  \/ GridUpdate
  \/ BotUpdate
  \/ UpdateBullets
  \/ RestartCheck

\* a keydown event, delivered between frames
KeyDown(key) ==
  /\ pc.at = "idle"
  /\ meter.keys > 0
  /\ key \notin game.input.keys
  /\ game' = InputHandler_handleKeyDown(Fresh(game), key)
  /\ meter' = [meter EXCEPT !.keys = @ - 1]
  /\ UNCHANGED pc
  /\ OldRest

\* a keyup event of a key that is down
KeyUp(key) ==
  /\ pc.at = "idle"
  /\ meter.keys > 0
  /\ key \in game.input.keys
  /\ game' = InputHandler_handleKeyUp(Fresh(game), key)
  /\ meter' = [meter EXCEPT !.keys = @ - 1]
  /\ UNCHANGED pc
  /\ OldRest

\* ------------------------------------------------- states of a game in play
\* cargo slots filled from the first with the orbs of a sequence
CargoOf(orbs) ==
  [i \in 0 .. MAX_CARGO_SLOTS - 1 |-> IF i + 1 <= Len(orbs) THEN orbs[i + 1] ELSE None]

\* the ship of grid o flown to a position, holding a cargo
Flown(g, o, position, orbs) ==
  [g EXCEPT !.grids[o].ship.position = position,
            !.grids[o].ship.previousPosition = position,
            !.grids[o].ship.cargo = CargoOf(orbs)]

\* a point of the hub's banking zone, 100 pixels below the hub
InZone == Vec2(WormholeCenter.x, WormholeCenter.y + Px(100))

\* a point on the rim of the hub's banking zone, 120 pixels below the hub
OnRim == Vec2(WormholeCenter.x, WormholeCenter.y + Px(WORMHOLE_BANKING_RADIUS))

\* ------------------------------------------------------- the kill feed
MaxFeedKeys == 13       \* key events explored on the kill feed

\* the banking keys of the first two slots: a press adds a line to the feed
FeedKeys == {"1", "2"}

InitFeed ==
  /\ OldIdle
  /\ \E position \in {SpawnPoint, InZone}, orbs \in {<<>>, <<RED>>, <<BLUE, GREEN>>} :
       game = Flown(NewGame(StartTime, 0), PLAYER, position, orbs)
  /\ pc = At("idle", 0)
  /\ meter = [frames |-> 0, keys |-> MaxFeedKeys, steps |-> 0]

FeedKeyDown == \E key \in FeedKeys : KeyDown(key)
FeedKeyUp == \E key \in FeedKeys : KeyUp(key)

NextFeed ==
  \/ FeedKeyDown
  \/ FeedKeyUp

SpecFeed == InitFeed /\ [][NextFeed]_vars

\* the messages of feed that are still in later, in their order: later is some new
\* messages followed by the first kept messages of feed
KeepsNewestFirst(feed, later) ==
  \E kept \in 0 .. Len(feed) :
    /\ kept <= Len(later)
    /\ SubSeq(later, Len(later) - kept + 1, Len(later)) = SubSeq(feed, 1, kept)
    /\ (kept < Len(feed) => Len(later) = maxKillFeed)

\* C20: the kill feed never holds more than 5 messages, and a step that adds messages
\* puts them in front of those already there, which keep their order; older messages
\* are dropped, the oldest first, only when the feed would exceed 5.
C20_KillFeed ==
  /\ [](Len(game.killFeed) <= maxKillFeed)
  /\ [][KeepsNewestFirst(game.killFeed, game'.killFeed)]_vars

\* a sixth message was added to a full feed and the oldest one dropped
C20_Witness ==
  /\ game.log.popped = 1
  /\ Len(game.killFeed) = maxKillFeed
  /\ game.killFeed[1] # game.killFeed[2]

\* ------------------------------------------------------------- the bots
MaxBotFrames == 2       \* frames explored with a bot in a prepared grid

\* one frame later, exactly one physics step is due
OneStep == PHYSICS_DT

\* an asteroid drifting by, dx pixels to the right of position p
AsteroidBy(p, dx) == NewAsteroid(Vec2(p.x + Px(dx), p.y), Vec2(0, Px(2)), FALSE)

\* a nuke at the hub whose countdown ends with the next update
NukeAtZero == [NewNuke(WormholeCenter) EXCEPT !.countdownTime = 1, !.lifetime = 2 * 60 + 1]

\* what a bot may find in its grid, with its ship at position p
BotHazards(p) ==
  { <<>>,
    <<AsteroidBy(p, 80)>>, <<AsteroidBy(p, 120)>>, <<AsteroidBy(p, 300)>>,
    <<NewNuke(WormholeCenter)>>,
    <<AsteroidBy(p, 80), NewNuke(WormholeCenter)>>,
    <<NukeAtZero>> }

\* the orbs a bot has collected
BotCargoes == {SubSeq(<<RED, BLUE, GREEN, RED>>, 1, n) : n \in 0 .. MAX_CARGO_SLOTS}

\* a game in play in which bot o, in a state of its machine, has flown to a position
\* with a cargo and finds hazards there; due: its reaction delay has run out
BotInPlay(o, position, orbs, hazards, state, due, seed) ==
  LET g == Flown(NewGame(StartTime, seed), o, position, orbs)
  IN [g EXCEPT !.grids[o].hazards = hazards,
               !.bots[o].currentState = state,
               !.bots[o].lastDecisionTime = IF due THEN StartTime - Ms(300) ELSE StartTime]

InitBot ==
  /\ OldIdle
  /\ \E o \in BotOwners, orbs \in BotCargoes, state \in BotState, due \in BOOLEAN :
       \E position \in {NewGame(StartTime, 0).grids[o].ship.position, InZone, OnRim} :
         \E hazards \in BotHazards(position) :
           game = BotInPlay(o, position, orbs, hazards, state, due, 0)
  /\ pc = At("idle", 0)
  /\ meter = [frames |-> MaxBotFrames, keys |-> 0, steps |-> 0]

BotFrame == Frame(OneStep)

NextBot ==
  \/ BotFrame
  \/ HubUpdate
  \/ GridUpdate
  \/ BotUpdate
  \/ UpdateBullets
  \/ RestartCheck

SpecBot == InitBot /\ [][NextBot]_vars

\* the bot whose update() is the next call
BotNext == BotOrder[pc.i]
\* the bot whose update() was the last call
BotLast == IF pc.at = "bot" THEN BotOrder[pc.i - 1] ELSE BotOrder[Len(BotOrder)]
BotJustUpdated == (pc.at = "bot" /\ pc.i > 1) \/ pc.at = "bullets"

Living(g, o) == ~g.grids[o].ship.isDead /\ ~g.grids[o].gameOver

\* the grid of o holds an active nuke that has not detonated
NukeThreat(g, o) ==
  \E i \in DOMAIN g.grids[o].hazards :
    LET h == g.grids[o].hazards[i] IN h.type = NUKE /\ h.active /\ ~h.detonated

\* an active hazard of the grid is closer to the ship than the bot's evade distance
HazardNearby(g, o) ==
  \E i \in DOMAIN g.grids[o].hazards :
    LET h == g.grids[o].hazards[i]
    IN h.active /\ DistLT(h.position, g.grids[o].ship.position,
                          Px(g.bots[o].config.evadeDistance))

\* cargo fullness is at or above the bot's bank threshold
CargoToBank(g, o) ==
  Ship_getCargoCount(g.grids[o].ship) * 1000 >= g.bots[o].config.bankThreshold * MAX_CARGO_SLOTS

\* the state the strict priority order names
Priority(g, o) ==
  IF NukeThreat(g, o) THEN FLEE_NUKE
  ELSE IF HazardNearby(g, o) THEN EVADE
  ELSE IF CargoToBank(g, o) THEN BANK
  ELSE COLLECT

\* the bot's reaction delay has run out and its ship is within the banking radius
BanksNow(g, o) ==
  /\ g.now - g.bots[o].lastDecisionTime >= Ms(g.bots[o].config.reactionDelay)
  /\ DistLT(g.grids[o].ship.position, WormholeCenter, Px(WORMHOLE_BANKING_RADIUS))

\* C11: BotAI.update() of a living bot leaves it in FLEE_NUKE when its grid holds an
\* active undetonated nuke, else in EVADE when an active hazard is closer than its
\* evade distance, else, with cargo at or above its bank threshold, in BANK, unless
\* that same update executes the BANK behaviour inside the banking radius: then the
\* bot banks its cargo and is left in COLLECT; otherwise it is left in COLLECT.
C11_BotPriority ==
  [][(pc.at = "bot" /\ Living(game, BotNext)) =>
       LET o == BotNext
       IN IF Priority(game, o) = BANK /\ BanksNow(game, o)
            THEN /\ game'.bots[o].currentState = COLLECT
                 /\ Ship_isCargoEmpty(game'.grids[o].ship)
                 /\ Len(game'.log.bankEvents) = 1
            ELSE game'.bots[o].currentState = Priority(game, o)]_vars

\* C11 as stated: the state after update() is always the one the priority order names
C11_BotPriorityAlways ==
  [][(pc.at = "bot" /\ Living(game, BotNext)) =>
       game'.bots[BotNext].currentState = Priority(game, BotNext)]_vars

\* a living bot with a nuke counting down, an asteroid nearby and cargo to bank has
\* just been updated and flees the nuke
C11_Witness ==
  /\ BotJustUpdated
  /\ Living(game, BotLast)
  /\ NukeThreat(game, BotLast) /\ HazardNearby(game, BotLast) /\ CargoToBank(game, BotLast)
  /\ game.bots[BotLast].currentState = FLEE_NUKE
  /\ game.bots[BotLast].lastDecisionTime = game.now

\* ------------------------------------------------------- the frame loop
MaxLoopFrames == 2      \* frames explored with deltas of any length

\* time between two frames: less than a step, a step and a half, eleven and a half
\* steps, twenty-five steps
LoopDeltas == {PHYSICS_DT \div 2, 3 * (PHYSICS_DT \div 2), 23 * (PHYSICS_DT \div 2),
               25 * PHYSICS_DT}
LongestDelta == 25 * PHYSICS_DT

InitLoop ==
  /\ OldIdle
  /\ \E seed \in 0 .. MaxSeed : game = NewGame(StartTime, seed)
  /\ pc = At("idle", 0)
  /\ meter = [frames |-> MaxLoopFrames, keys |-> 0, steps |-> 0]

LoopFrame == \E delta \in LoopDeltas : Frame(delta)

NextLoop ==
  \/ LoopFrame
  \/ HubUpdate
  \/ GridUpdate
  \/ BotUpdate
  \/ UpdateBullets
  \/ RestartCheck

SpecLoop == InitLoop /\ [][NextLoop]_vars

\* C12: in every frame of Game.loop at most 10 fixed physics steps execute, whatever
\* the time since the last frame and the accumulator left over from earlier frames.
C12_StepsPerFrame == meter.steps <= 10

\* a frame that came 25 steps after the one before it has run 10 steps and is over,
\* and nothing is left in the accumulator
C12_Witness ==
  /\ pc.at = "idle"
  /\ meter.steps = 10
  /\ game.now - StartTime >= LongestDelta
  /\ game.accumulator = 0

\* ------------------------------------------------------------ a round
MaxRoundFrames == 3     \* frames explored in a round, one physics step each
MaxRoundKeys == 2       \* key events explored in a round

SAFE == "safe"
DOOMED == "doomed"
AGED == "aged"

\* a detonated nuke at the hub, d updates before its explosion ends
NukeEnding(d) ==
  [NewNuke(WormholeCenter) EXCEPT !.countdownTime = 0, !.detonated = TRUE,
                                  !.explosionTime = 2 * 60 - d, !.radius = Px(375),
                                  !.lifetime = d]

\* an armed mine at position p, d updates before it expires
MineEnding(p, d) ==
  [NewMine(p) EXCEPT !.armingTime = 0, !.armed = TRUE,
                     !.blinkSteps = 30 * 60 - MINE_ARMING_TIME - d, !.lifetime = d]

\* the grid of a ship in a plight.  doomed: on its last life with an asteroid upon it;
\* aged: an asteroid ahead of its nose, and far from it an asteroid and a mine in
\* their last update, a nuke whose explosion ends, and a boost zone in its last update
InPlight(grid, plight) ==
  LET p == grid.ship.position
  IN CASE plight = DOOMED ->
            [grid EXCEPT !.ship.lives = 1, !.hazards = <<AsteroidBy(p, 0)>>]
       [] plight = AGED ->
            [grid EXCEPT
               !.hazards = << NewAsteroid(Vec2(p.x, p.y - Px(50)), Vec2(0, Px(-1)), FALSE),
                              [AsteroidBy(p, 300) EXCEPT !.lifetime = 1],
                              MineEnding(Vec2(p.x, p.y + Px(150)), 1),
                              NukeEnding(2) >>,
               !.boostZones = << [NewSpeedBoostZone(WormholeCenter, FALSE)
                                    EXCEPT !.lifetime = 1] >>]
       [] OTHER -> grid

\* the plights of the player, bot-1 and bot-2 at the start of the rounds explored
RoundPlights ==
  { <<SAFE, SAFE, SAFE>>, <<SAFE, DOOMED, DOOMED>>, <<DOOMED, DOOMED, SAFE>>,
    <<DOOMED, DOOMED, DOOMED>>, <<AGED, DOOMED, AGED>>, <<AGED, AGED, AGED>> }

RoundInPlay(plights) ==
  LET g == NewGame(StartTime, 0)
  IN [g EXCEPT !.grids = [o \in Owners |->
                            InPlight(g.grids[o],
                                     plights[CHOOSE i \in DOMAIN GridOrder : GridOrder[i] = o])]]

InitRound ==
  /\ OldIdle
  /\ \E plights \in RoundPlights : game = RoundInPlay(plights)
  /\ pc = At("idle", 0)
  /\ meter = [frames |-> MaxRoundFrames, keys |-> MaxRoundKeys, steps |-> 0]

RoundFrame == Frame(OneStep)
ActionDown == KeyDown(" ")
ActionUp == KeyUp(" ")

NextRound ==
  \/ RoundFrame
  \/ HubUpdate
  \/ GridUpdate
  \/ BotUpdate
  \/ UpdateBullets
  \/ RestartCheck
  \/ ActionDown
  \/ ActionUp

SpecRound == InitRound /\ [][NextRound]_vars

\* the owners whose ship is alive
AliveSet(g) == {o \in Owners : ~g.grids[o].ship.isDead}

\* a grid in its initial conditions
GridInitial(grid) ==
  /\ grid.ship.position = SpawnPoint
  /\ grid.ship.lives = MAX_LIVES
  /\ Ship_isCargoEmpty(grid.ship)
  /\ ~grid.ship.isDead
  /\ grid.hazards = <<>> /\ grid.boostZones = <<>> /\ grid.orbs = <<>>
  /\ ~grid.gameOver

\* the game as a new round finds it
RoundInitial(g) ==
  /\ \A o \in Owners : GridInitial(g.grids[o])
  /\ ~g.gameOver /\ g.winner = None
  /\ g.bullets = <<>> /\ g.killFeed = <<>>

\* C13: after the step in which a restart is triggered during game-over, every grid
\* is back in initial conditions (ship at the spawn point with 3 lives, empty cargo,
\* not dead; no hazards, zones or orbs; grid game-over cleared), the global game-over
\* flag and the winner are cleared, and the bullets and the kill feed are empty.
C13_RestartInitial ==
  [][game'.log.restarts > 0 => RoundInitial(game')]_vars

\* C14: Game.restart() and GridState.reset() execute only in a step in which the
\* global game-over flag is true: no input resets a grid while the game is not over.
C14_RestartOnlyWhenOver ==
  [][(game'.log.restarts > 0 \/ game'.log.resets # <<>>) => game.gameOver]_vars

\* a restart has just been executed, resetting every grid, in a game that was over
C14_Witness ==
  /\ game.log.restarts = 1
  /\ game.log.resets = GridOrder
  /\ pc.at = "idle"
  /\ \A o \in Owners : game.grids[o].ship.lives = MAX_LIVES

\* C18: when a tick is complete (grid updates, bot updates, bullet update), no grid's
\* hazards and no grid's boost zones hold an entry that is expired (lifetime <= 0) or
\* inactive.
C18_Swept ==
  pc.at \in {"idle", "hub"} =>
    \A o \in Owners :
      /\ \A i \in DOMAIN game.grids[o].hazards :
           game.grids[o].hazards[i].active /\ game.grids[o].hazards[i].lifetime > 0
      /\ \A i \in DOMAIN game.grids[o].boostZones :
           game.grids[o].boostZones[i].active /\ game.grids[o].boostZones[i].lifetime > 0

\* ticks are complete in which the player's grid lost an expired asteroid, an expired
\* mine, a burnt-out nuke (which had hit the ship) and an expired boost zone
C18_Witness ==
  /\ pc.at = "idle"
  /\ game.now >= StartTime + 2 * OneStep
  /\ game.grids[PLAYER].ship.lives = MAX_LIVES - 1
  /\ Len(game.grids[PLAYER].hazards) = 1
  /\ game.grids[PLAYER].hazards[1].type = ASTEROID
  /\ game.grids[PLAYER].boostZones = <<>>

\* C19: at most one GridState has its winner field set, and the orchestrator names a
\* winner only in a step after which exactly one ship is alive, the winner's.
C19_OneWinner ==
  /\ [](Cardinality({o \in Owners : game.grids[o].winner # None}) <= 1)
  /\ [](game.winner \in Owners \cup {None})
  /\ [][(game'.winner # game.winner /\ game'.winner # None) =>
          AliveSet(game') = {game'.winner}]_vars

\* the player has been named the winner, the only ship alive
C19_Witness ==
  /\ game.winner = PLAYER
  /\ game.gameOver
  /\ AliveSet(game) = {PLAYER}
  /\ \A o \in BotOwners : game.grids[o].gameOver

\* ------------------------------------------------------------- banking
MaxBankCalls == 2       \* banking attempts explored in a game

\* the ships in the banking zone, and the ships destroyed, at the start
BankZones == { {}, {"player"}, {"bot-1"}, {"player", "bot-1", "bot-2"} }
BankDead == { {}, {"bot-2"}, {"bot-1", "bot-2"}, {"player", "bot-2"} }

\* the cargo slots of the living ships at the start
BankCargoes ==
  { CargoOf(<<>>), CargoOf(<<RED>>), CargoOf(<<None, BLUE>>),
    CargoOf(<<GREEN, GOLD, RED, BLUE>>) }

\* a ship destroyed by its third hit, its grid game over
Destroyed(grid) ==
  [grid EXCEPT !.ship.lives = 0, !.ship.isDead = TRUE, !.ship.cargo = EmptyCargo,
               !.gameOver = TRUE]

\* a game in which the ships of zone are in the banking zone, the ships of dead are
\* destroyed and the others hold a cargo; with one ship left the round is over
BankInPlay(zone, dead, cargo) ==
  LET g == NewGame(StartTime, 0)
      placed == [o \in Owners |->
                   LET grid == IF o \in zone
                                 THEN [g.grids[o] EXCEPT !.ship.position = InZone,
                                                         !.ship.previousPosition = InZone]
                                 ELSE g.grids[o]
                   IN IF o \in dead THEN Destroyed(grid)
                      ELSE [grid EXCEPT !.ship.cargo = cargo]]
      alive == Owners \ dead
  IN IF Cardinality(alive) = 1
       THEN [g EXCEPT !.grids = placed, !.gameOver = TRUE,
                      !.winner = CHOOSE o \in alive : TRUE]
       ELSE [g EXCEPT !.grids = placed]

InitBank ==
  /\ OldIdle
  /\ \E zone \in BankZones, dead \in BankDead, cargo \in BankCargoes :
       game = BankInPlay(zone, dead, cargo)
  /\ pc = At("idle", 0)
  /\ meter = [frames |-> 0, keys |-> MaxBankCalls, steps |-> 0]

\* grid.bankOrbs() of the grid of owner o
BankOrbs(o) ==
  /\ pc.at = "idle"
  /\ meter.keys > 0
  /\ game' = GridState_bankOrbs(Fresh(game), o)
  /\ meter' = [meter EXCEPT !.keys = @ - 1]
  /\ UNCHANGED pc
  /\ OldRest

\* the keys that bank the player's slots, and the slot of each
BankKeys == {"1", "2", "3", "4"}
SlotOf(key) == CASE key = "1" -> 0 [] key = "2" -> 1 [] key = "3" -> 2 [] key = "4" -> 3

BankAll == \E o \in Owners : BankOrbs(o)
BankSlot == \E key \in BankKeys : KeyDown(key)

NextBank ==
  \/ BankAll
  \/ BankSlot

SpecBank == InitBank /\ [][NextBank]_vars

\* the orb types in a ship's cargo, in slot order
CargoInOrder(s) ==
  SelectSeq([i \in 1 .. MAX_CARGO_SLOTS |-> s.cargo[i - 1]], LAMBDA slot : slot # None)

\* banking is permitted: the ship is within the banking zone and holds cargo
MayBank(g, o) ==
  /\ DistLE(g.grids[o].ship.position, WormholeCenter, Px(WORMHOLE_BANKING_RADIUS))
  /\ CargoInOrder(g.grids[o].ship) # <<>>

\* from g to h no cargo changed, no bank event was emitted, no hazard or zone was
\* added anywhere, no attack message or screen shake changed, and the kill feed
\* gained at most one message
NothingBanked(g, h) ==
  /\ \A o \in Owners :
       /\ h.grids[o].ship.cargo = g.grids[o].ship.cargo
       /\ h.grids[o].hazards = g.grids[o].hazards
       /\ h.grids[o].boostZones = g.grids[o].boostZones
       /\ h.grids[o].lastAttackResult = g.grids[o].lastAttackResult
       /\ h.grids[o].attackMessageTimer = g.grids[o].attackMessageTimer
       /\ h.grids[o].screenShake = g.grids[o].screenShake
  /\ h.log.bankEvents = <<>> /\ h.log.deliveries = <<>>
  /\ \/ h.killFeed = g.killFeed
     \/ /\ Len(h.killFeed) > 0
        /\ h.killFeed = SubSeq(<<h.killFeed[1]>> \o g.killFeed, 1, Len(h.killFeed))
        /\ Len(h.killFeed) = Min(Len(g.killFeed) + 1, maxKillFeed)

\* C15: a banking attempt made outside the banking zone or with empty cargo (for the
\* banking of one slot: with that slot empty) changes no cargo, emits no bank event,
\* adds no hazard or zone to any grid and leaves attack messages and screen shake as
\* they were; at most it adds one kill-feed message.
C15_FailedBankNoOp ==
  [][/\ \A o \in Owners :
          (BankOrbs(o) /\ ~MayBank(game, o)) => NothingBanked(game, game')
     /\ \A key \in BankKeys :
          (/\ KeyDown(key)
           /\ \/ ~DistLE(game.grids[PLAYER].ship.position, WormholeCenter,
                         Px(WORMHOLE_BANKING_RADIUS))
              \/ game.grids[PLAYER].ship.cargo[SlotOf(key)] = None)
            => NothingBanked(game, game')]_vars

\* the player, holding cargo outside the banking zone, has pressed a banking key and
\* was told so in the kill feed
C15_Witness ==
  /\ ~DistLE(game.grids[PLAYER].ship.position, WormholeCenter, Px(WORMHOLE_BANKING_RADIUS))
  /\ CargoInOrder(game.grids[PLAYER].ship) = <<GREEN, GOLD, RED, BLUE>>
  /\ Len(game.killFeed) = 1
  /\ game.killFeed[1].text = "[SYSTEM] Must be in upload zone!"
  /\ game.input.keys # {}

\* C16: a successful GridState.bankOrbs() (ship in the banking zone, cargo not empty)
\* leaves the ship's cargo empty and emits exactly one bank event, which carries the
\* grid's owner and exactly the orb types that were in cargo, in slot order.
C16_BankEvent ==
  [][\A o \in Owners :
       (BankOrbs(o) /\ MayBank(game, o)) =>
         /\ CargoInOrder(game'.grids[o].ship) = <<>>
         /\ game'.log.bankEvents =
              << [owner |-> o, orbs |-> CargoInOrder(game.grids[o].ship)] >>]_vars

\* bot-1 has banked a full cargo of four different orbs
C16_Witness ==
  /\ game.log.bankEvents = << [owner |-> "bot-1", orbs |-> <<GREEN, GOLD, RED, BLUE>>] >>
  /\ CargoInOrder(game.grids["bot-1"].ship) = <<>>

\* the grids whose hazards or boost zones differ between g and h
Struck(g, h) ==
  {o \in Owners : \/ h.grids[o].hazards # g.grids[o].hazards
                  \/ h.grids[o].boostZones # g.grids[o].boostZones}

\* the owners with a living ship other than o
LivingRivals(g, o) == {r \in Owners \ {o} : ~g.grids[r].ship.isDead}

\* C17: the attack of a banking action of grid S (cargo left the ship of S) is handed
\* to exactly one grid, one of the grids other than S whose ship is alive, and what
\* it spawns is added behind the hazards and zones that grid had; no other grid gains
\* any, and with no living rival nothing is delivered or spawned anywhere.  Without a
\* banking action nothing is spawned.
C17_OneLivingRival ==
  [][/\ \A s \in Owners :
          game'.grids[s].ship.cargo # game.grids[s].ship.cargo =>
            IF LivingRivals(game, s) = {}
              THEN Struck(game, game') = {} /\ game'.log.deliveries = <<>>
            ELSE \E t \in LivingRivals(game, s) :
                   /\ Struck(game, game') \subseteq {t}
                   /\ game'.log.deliveries = << [source |-> s, target |-> t] >>
                   /\ Len(game'.grids[t].hazards) >= Len(game.grids[t].hazards)
                   /\ SubSeq(game'.grids[t].hazards, 1, Len(game.grids[t].hazards))
                        = game.grids[t].hazards
                   /\ SubSeq(game'.grids[t].boostZones, 1, Len(game.grids[t].boostZones))
                        = game.grids[t].boostZones
     /\ (\A s \in Owners : game'.grids[s].ship.cargo = game.grids[s].ship.cargo)
          => Struck(game, game') = {} /\ game'.log.deliveries = <<>>]_vars

\* the player's attack was delivered to bot-1, the only living rival, which now has
\* hazards or zones, while the destroyed bot-2 has none
C17_Witness ==
  /\ game.log.deliveries = << [source |-> PLAYER, target |-> "bot-1"] >>
  /\ game.grids["bot-2"].ship.isDead
  /\ game.grids["bot-1"].hazards # <<>> \/ game.grids["bot-1"].boostZones # <<>>
  /\ game.grids["bot-2"].hazards = <<>> /\ game.grids["bot-2"].boostZones = <<>>
  /\ game.grids[PLAYER].hazards = <<>> /\ game.grids[PLAYER].boostZones = <<>>

\* the kill feed of g holds an [ERROR] line
ErrorShown(g) == \E i \in DOMAIN g.killFeed : g.killFeed[i].text = "[ERROR]"

\* C21: when an operation of the tick loop throws (restart() does, calling the
\* missing bot.reset), the exception is caught in Game.loop: exactly one [ERROR]
\* line with the error's message is put in front of the kill feed, the game keeps
\* running, and the loop waits for the next frame, which runs when it comes.
C21_ErrorCaught ==
  /\ [][game'.log.restarts > 0 =>
          /\ game'.running
          /\ pc'.at = "idle"
          /\ game'.thrown = None
          /\ game'.killFeed =
               SubSeq(<<Msg("[ERROR]", "", "bot.reset is not a function", 0)>>
                        \o game.killFeed,
                      1, Min(Len(game.killFeed) + 1, maxKillFeed))]_vars
  /\ []((ErrorShown(game) /\ pc.at = "idle" /\ meter.frames > 0) => ENABLED RoundFrame)

\* after an exception was reported in the kill feed, a later frame is ticking
C21_Witness ==
  /\ ErrorShown(game)
  /\ pc.at = "bullets"
  /\ game.running

\* C22: the hub shared by all grids is updated once per fixed step, by the
\* orchestrator before any grid: GridState.update() leaves its rotation and pulse
\* phase unchanged.
C22_HubOncePerStep ==
  /\ [][pc.at = "grid" => game'.wormhole = game.wormhole]_vars
  /\ [][pc.at = "hub" =>
          game'.wormhole.rotationSteps = game.wormhole.rotationSteps + 1]_vars

\* C23: Ship.takeDamage() on a ship that is invulnerable or dead changes nothing and
\* returns false; otherwise it takes exactly one life, empties the 4 cargo slots,
\* sets the invulnerability countdown to 180 and returns true exactly when the lives
\* have reached 0, the ship then being dead; lives stay within 0..3.
C23_TakeDamage ==
  /\ [](ship.lives \in 0 .. 3)
  /\ [][ret'.op = "takeDamage" =>
          IF ship.invulnerabilityTimer > 0 \/ ship.isDead
            THEN ship' = ship /\ ret'.value = FALSE
            ELSE /\ ship'.lives = ship.lives - 1
                 /\ \A i \in 0 .. 3 : ship'.cargo[i] = None
                 /\ ship'.invulnerabilityTimer = 180
                 /\ ret'.value = (ship'.lives = 0)
                 /\ ship'.isDead = (ship'.lives = 0)
                 /\ ship'.position = ship.position /\ ship'.velocity = ship.velocity]_vars

\* the third hit, on a ship that held cargo, has destroyed it
C23_Witness ==
  /\ ret = Call("takeDamage", TRUE)
  /\ ship.isDead /\ ship.lives = 0
  /\ ship.invulnerabilityTimer = 180
  /\ Ship_isCargoEmpty(ship)

\* the grid whose update() is the next call
GridNext == GridOrder[pc.i]
\* the grid whose update() was the last call
GridLast == IF pc.at = "grid" THEN GridOrder[pc.i - 1] ELSE GridOrder[Len(GridOrder)]
GridJustUpdated == (pc.at = "grid" /\ pc.i > 1) \/ (pc.at = "bot" /\ pc.i = 1)

\* C24: GridState.update() of a grid that is game over changes only its game-over
\* timer: ship, orbs, hazards, boost zones, spawn timer, banking pulse, screen shake
\* and attack-message timer stay as they are; and outside a reset a dead ship
\* neither moves nor loses lives.
C24_GameOverFrozen ==
  /\ [][(pc.at = "grid" /\ game.grids[GridNext].gameOver) =>
          /\ game'.grids[GridNext] =
               [game.grids[GridNext] EXCEPT !.gameOverTimer = @ + 1]
          /\ \A o \in Owners \ {GridNext} : game'.grids[o] = game.grids[o]]_vars
  /\ [][\A o \in Owners :
          (game.grids[o].ship.isDead /\ game'.log.resets = <<>>) =>
            /\ game'.grids[o].ship.position = game.grids[o].ship.position
            /\ game'.grids[o].ship.velocity = game.grids[o].ship.velocity
            /\ game'.grids[o].ship.lives = game.grids[o].ship.lives
            /\ game'.grids[o].ship.isDead]_vars

\* a grid whose ship was destroyed has been updated twice since: the asteroid that
\* destroyed it is still upon the ship, as old as it was in the tick of the hit
C24_Witness ==
  /\ GridJustUpdated
  /\ game.grids[GridLast].gameOver
  /\ game.grids[GridLast].gameOverTimer = 2
  /\ game.grids[GridLast].ship.isDead
  /\ Len(game.grids[GridLast].hazards) = 1
  /\ game.grids[GridLast].hazards[1].lifetime = 15 * 60 - 1

\* the number of times owner o occurs in the sequence s
Times(s, o) == Cardinality({i \in DOMAIN s : s[i] = o})

\* the ship of owner o loses its last life in the step
DiesNow(o) == game.grids[o].ship.lives > 0 /\ game'.grids[o].ship.lives = 0

\* C25: the step in which a ship's lives reach 0 is an update of its own grid,
\* and that same update sets the grid's gameOver and fires the ship-destroyed
\* event once for that ship; the event fires at no other time, so once per
\* ship and round; gameOver stays true in every step that does not reset
\* the grid.
C25_DeathEndsGrid ==
  /\ [][\A o \in Owners :
          DiesNow(o) => /\ pc.at = "grid" /\ GridNext = o
                        /\ game'.grids[o].gameOver
                        /\ game'.grids[o].ship.isDead
                        /\ Times(game'.log.shipsDestroyed, o) = 1]_vars
  /\ [][\A o \in Owners :
          Times(game'.log.shipsDestroyed, o) > 0 => DiesNow(o)]_vars
  /\ [][\A o \in Owners :
          (game.grids[o].gameOver /\ Times(game'.log.resets, o) = 0)
            => game'.grids[o].gameOver]_vars

\* a bot's grid update took its ship's last life: the grid is game over and
\* the event has fired for it, while the round goes on with two ships
C25_Witness ==
  /\ GridJustUpdated
  /\ GridLast = "bot-1"
  /\ game.log.shipsDestroyed = <<"bot-1">>
  /\ game.grids["bot-1"].gameOver
  /\ game.grids["bot-1"].gameOverTimer = 0
  /\ game.grids["bot-1"].ship.lives = 0
  /\ ~game.gameOver

\* ------------------------------------------------ the grids' ticks, in straits
MaxGridFrames == 2      \* frames explored on the grids, one physics step each

BESET == "beset"
LAST == "last"
SHIELDED == "shielded"
UNSHIELDING == "unshielding"
CROWDED == "crowded"
FILLING == "filling"
LADEN == "laden"
GRAB == "grab"
SNATCH == "snatch"
HAUNTED == "haunted"
BOOSTED == "boosted"
FADING == "fading"
HALFBOOST == "halfboost"

\* n orbs in a row along the top of the world, clear of the hub and of each other
OrbRow(n) == [i \in 1 .. n |-> NewOrb(Vec2(Px(90 * i), Px(100)), IF i % 2 = 0 THEN RED ELSE GREEN)]

\* two orbs a ship at position p touches at once, 40 pixels apart
OrbPair(p) == << NewOrb(Vec2(p.x - Px(20), p.y), BLUE), NewOrb(Vec2(p.x + Px(20), p.y), GOLD) >>

\* the grid of a ship in a strait.
\*   beset, last: two asteroids and the blast of a nuke upon the ship at once, with
\*     three lives or on the last life;
\*   shielded, unshielding: an asteroid upon a ship whose invulnerability lasts, or
\*     ends with the next update;
\*   crowded, filling: 12 orbs in the world, or 11 and the next orb due;
\*   laden, grab, snatch: two orbs touched at once, with all slots full, with one
\*     slot free, and with one slot free and an asteroid upon the ship;
\*   haunted: hazards of every kind and boost zones of both kinds around the ship,
\*     new ones and ones in their last updates;
\*   boosted, fading, halfboost: boost zones around the ship, fresh ones of an
\*     attack just delivered, or one in its last update that has boosted the ship
InStrait(grid, strait) ==
  LET p == grid.ship.position
      due == [grid EXCEPT !.orbSpawnTimer = grid.nextOrbSpawnTime - PHYSICS_DT]
  IN CASE strait = BESET ->
            [grid EXCEPT !.hazards = <<AsteroidBy(p, 0), AsteroidBy(p, 10), NukeEnding(3)>>]
       [] strait = LAST ->
            [grid EXCEPT !.ship.lives = 1,
                         !.hazards = <<NukeEnding(3), AsteroidBy(p, 0), AsteroidBy(p, 10)>>]
       [] strait = SHIELDED ->
            [grid EXCEPT !.ship.lives = 2, !.ship.invulnerabilityTimer = 2,
                         !.hazards = <<AsteroidBy(p, 0)>>]
       [] strait = UNSHIELDING ->
            [grid EXCEPT !.ship.lives = 2, !.ship.invulnerabilityTimer = 1,
                         !.hazards = <<AsteroidBy(p, 0)>>]
       [] strait = CROWDED -> [grid EXCEPT !.orbs = OrbRow(MAX_ORBS)]
       [] strait = FILLING -> [due EXCEPT !.orbs = OrbRow(MAX_ORBS - 1)]
       [] strait = LADEN ->
            [grid EXCEPT !.ship.cargo = CargoOf(<<RED, RED, GREEN, BLUE>>),
                         !.orbs = OrbPair(p)]
       [] strait = GRAB ->
            [grid EXCEPT !.ship.cargo = CargoOf(<<RED, None, GREEN, BLUE>>),
                         !.orbs = OrbPair(p)]
       [] strait = SNATCH ->
            [grid EXCEPT !.ship.cargo = CargoOf(<<RED, None, GREEN, BLUE>>),
                         !.orbs = OrbPair(p), !.hazards = <<AsteroidBy(p, 0)>>]
       [] strait = HAUNTED ->
            [grid EXCEPT
               !.hazards =
                 << AsteroidBy(p, 300), [AsteroidBy(p, -300) EXCEPT !.lifetime = 1],
                    Seeker_setTarget(NewSeeker(Vec2(p.x, p.y - Px(300)), 0), grid.owner),
                    [Seeker_setTarget(NewSeeker(Vec2(p.x, p.y + Px(150)), 0), grid.owner)
                       EXCEPT !.lifetime = 1],
                    NewMine(Vec2(p.x + Px(300), p.y + Px(150))),
                    MineEnding(Vec2(p.x - Px(300), p.y + Px(150)), 1),
                    NewNuke(WormholeCenter), NukeEnding(1) >>,
               !.boostZones =
                 << NewSpeedBoostZone(Vec2(p.x + Px(300), p.y), FALSE),
                    NewSpeedBoostZone(Vec2(p.x - Px(300), p.y), TRUE),
                    [NewSpeedBoostZone(Vec2(p.x + Px(300), p.y), FALSE) EXCEPT !.lifetime = 1],
                    [NewSpeedBoostZone(Vec2(p.x - Px(300), p.y), TRUE) EXCEPT !.lifetime = 2] >>]
       [] strait = BOOSTED ->
            [grid EXCEPT !.boostZones =
               << NewSpeedBoostZone(p, FALSE),
                  NewSpeedBoostZone(Vec2(p.x + Px(50), p.y), TRUE) >>]
       [] strait = FADING ->
            [grid EXCEPT !.ship.speedBoost = 2000, !.boostZones =
               << [NewSpeedBoostZone(p, TRUE) EXCEPT !.lifetime = 1],
                  NewSpeedBoostZone(Vec2(p.x + Px(300), p.y), FALSE) >>]
       [] strait = HALFBOOST ->
            [grid EXCEPT !.ship.speedBoost = 2000, !.boostZones =
               << [NewSpeedBoostZone(p, TRUE) EXCEPT !.lifetime = 1],
                  NewSpeedBoostZone(Vec2(p.x, p.y + Px(50)), FALSE) >>]
       [] OTHER -> grid

GridStraits ==
  {SAFE, BESET, LAST, SHIELDED, UNSHIELDING, CROWDED, FILLING, LADEN, GRAB, SNATCH,
   HAUNTED, BOOSTED, FADING, HALFBOOST}

\* a game in play whose three grids are in the same strait
GridInPlay(strait) ==
  LET g == NewGame(StartTime, 0)
  IN [g EXCEPT !.grids = [o \in Owners |-> InStrait(g.grids[o], strait)]]

InitGrid ==
  /\ OldIdle
  /\ \E strait \in GridStraits : game = GridInPlay(strait)
  /\ pc = At("idle", 0)
  /\ meter = [frames |-> MaxGridFrames, keys |-> 0, steps |-> 0]

GridFrame == Frame(OneStep)

NextGrid ==
  \/ GridFrame
  \/ HubUpdate
  \/ GridUpdate
  \/ BotUpdate
  \/ UpdateBullets
  \/ RestartCheck

SpecGrid == InitGrid /\ [][NextGrid]_vars

\* the ship of grid o as checkCollisions of the grid's next update finds it
ShipAtCollision(o) == Ship_update(game.grids[o].ship)

\* the hazards of grid o as checkCollisions of the grid's next update finds them
HazardsAtCollision(o) ==
  [i \in DOMAIN game.grids[o].hazards |->
     Hazard_update(game.grids[o].hazards[i],
                   TargetOf(game, o, ShipAtCollision(o), game.grids[o].hazards[i]))]

\* the hazards the ship of grid o overlaps at that time, by their place in the collection
Overlapped(o) ==
  {i \in DOMAIN HazardsAtCollision(o) :
     Hazard_collidesWith(HazardsAtCollision(o)[i], ShipAtCollision(o).position,
                         Px(SHIP_COLLISION_RADIUS))}

\* the step is the update of the grid of owner o, the grid not being game over
LiveTick(o) == pc.at = "grid" /\ GridNext = o /\ ~game.grids[o].gameOver

\* C26: no step takes more than one life from a ship; a life is lost only in a tick
\* of the ship's own grid in which the ship, not invulnerable at collision time,
\* overlaps a hazard, and then exactly one life is lost however many hazards it
\* overlaps; the hazard applied is the first overlapped one in collection order (it is
\* the one named as the killer when the hit is fatal); a ship invulnerable at
\* collision time loses no life in the tick.
C26_OneLifePerTick ==
  /\ [][\A o \in Owners :
          game'.grids[o].ship.lives >= game.grids[o].ship.lives - 1]_vars
  /\ [][\A o \in Owners :
          game'.grids[o].ship.lives < game.grids[o].ship.lives =>
            /\ LiveTick(o)
            /\ ~Ship_isInvulnerable(ShipAtCollision(o))
            /\ Overlapped(o) # {}]_vars
  /\ [][\A o \in Owners :
          (LiveTick(o) /\ ~Ship_isInvulnerable(ShipAtCollision(o)) /\ Overlapped(o) # {}) =>
            LET first == CHOOSE i \in Overlapped(o) : \A j \in Overlapped(o) : i <= j
                killed == Msg("was destroyed by", DisplayName(o),
                              KillerName(HazardsAtCollision(o)[first].type), 0)
            IN /\ game'.grids[o].ship.lives = game.grids[o].ship.lives - 1
               /\ game'.grids[o].ship.lives = 0 =>
                    \E k \in DOMAIN game'.killFeed :
                      /\ game'.killFeed[k] = killed
                      /\ \A m \in DOMAIN game.killFeed : game.killFeed[m] # killed]_vars
  /\ [][\A o \in Owners :
          (LiveTick(o) /\ Ship_isInvulnerable(ShipAtCollision(o))) =>
            game'.grids[o].ship.lives = game.grids[o].ship.lives]_vars

\* the hazards of grid o that overlap its ship now
Overlapping(o) ==
  {i \in DOMAIN game.grids[o].hazards :
     Hazard_collidesWith(game.grids[o].hazards[i], game.grids[o].ship.position,
                         Px(SHIP_COLLISION_RADIUS))}

\* the player's ship, on its last life, was updated with the blast of a nuke and two
\* asteroids upon it: it lost that one life, to the nuke, the first of the three
C26_Witness ==
  /\ pc = At("grid", 2)
  /\ game.grids[PLAYER].ship.lives = 0
  /\ game.grids[PLAYER].ship.invulnerabilityTimer = INVULNERABILITY_TIME
  /\ Cardinality(Overlapping(PLAYER)) = 3
  /\ game.grids[PLAYER].hazards[1].type = NUKE
  /\ game.killFeed = <<Msg("was destroyed by", DisplayName(PLAYER), "NUKE", 0)>>

\* C27: a grid never holds more than 12 orbs, and no step adds more than one orb to
\* a grid.
C27_OrbCap ==
  /\ [](\A o \in Owners : Len(game.grids[o].orbs) <= MAX_ORBS)
  /\ [][\A o \in Owners :
          Len(game'.grids[o].orbs) <= Len(game.grids[o].orbs) + 1]_vars

\* a grid with 11 orbs has spawned its twelfth, away from the row of the others, and
\* has been updated once more since without spawning a thirteenth
C27_Witness ==
  /\ GridJustUpdated
  /\ meter.frames = 0
  /\ Len(game.grids[GridLast].orbs) = MAX_ORBS
  /\ game.grids[GridLast].orbs[MAX_ORBS].position.y # Px(100)
  /\ game.grids[GridLast].orbs[MAX_ORBS].bobSteps = 1
  /\ game.grids[GridLast].orbSpawnTimer = 0
  /\ game.grids[GridLast].nextOrbSpawnTime >= Ms(SPAWN_INTERVAL_MIN)

\* the orbs of grid o as checkCollisions of the grid's next update finds them: each
\* one updated, and the orb spawned in this update after them
OrbsAtCollision(o) ==
  GridState_updateOrbSpawning(
    [game EXCEPT !.grids[o].orbs = [i \in DOMAIN @ |-> Orb_update(@[i])]], o).grids[o].orbs

\* the orbs the ship of grid o touches at that time, by their place in the collection
Touched(o) ==
  {i \in DOMAIN OrbsAtCollision(o) :
     Orb_collidesWith(OrbsAtCollision(o)[i], ShipAtCollision(o).position,
                      Px(SHIP_COLLISION_RADIUS))}

\* the empty cargo slots of the ship of grid o
FreeSlots(o) == {c \in 0 .. MAX_CARGO_SLOTS - 1 : game.grids[o].ship.cargo[c] = None}

\* the place of element x among the elements of the set S of numbers, from 0
Rank(S, x) == Cardinality({y \in S : y < x})

\* C28: in the tick of a grid that is not game over, the touched orbs are taken in
\* collection order, one for each free cargo slot: exactly these orbs leave the world
\* and every other orb stays, in order; the type of the n-th orb taken fills the n-th
\* free slot, every other slot is unchanged, so as many orbs leave as slots are
\* filled; with all four slots full, every orb stays and the cargo is unchanged.  (A
\* ship hit in the same tick ends the tick with its cargo cleared.)
C28_OrbForSlot ==
  [][\A o \in Owners :
       LiveTick(o) =>
         LET orbs == OrbsAtCollision(o)
             taken == {i \in Touched(o) : Rank(Touched(o), i) < Cardinality(FreeSlots(o))}
             struck == game'.grids[o].ship.lives < game.grids[o].ship.lives
         IN /\ Len(game'.grids[o].orbs) = Len(orbs) - Cardinality(taken)
            /\ \A i \in DOMAIN orbs \ taken :
                 game'.grids[o].orbs[i - Rank(taken, i)] = orbs[i]
            /\ \A c \in 0 .. MAX_CARGO_SLOTS - 1 :
                 game'.grids[o].ship.cargo[c] =
                   IF struck THEN None
                   ELSE IF c \in FreeSlots(o) /\ Rank(FreeSlots(o), c) < Cardinality(taken)
                     THEN orbs[CHOOSE i \in taken : Rank(taken, i) = Rank(FreeSlots(o), c)].type
                     ELSE game.grids[o].ship.cargo[c]
            /\ FreeSlots(o) = {} =>
                 /\ game'.grids[o].orbs = orbs
                 /\ struck \/ game'.grids[o].ship.cargo = game.grids[o].ship.cargo]_vars

\* the player's ship, with one slot free, touched a BLUE and a GOLD orb at once: BLUE
\* fills the slot and has left the world, GOLD is still there, and is still touched
C28_Witness ==
  /\ pc = At("grid", 2)
  /\ game.grids[PLAYER].ship.cargo = CargoOf(<<RED, BLUE, GREEN, BLUE>>)
  /\ Len(game.grids[PLAYER].orbs) = 1
  /\ game.grids[PLAYER].orbs[1].type = GOLD
  /\ Orb_collidesWith(game.grids[PLAYER].orbs[1], game.grids[PLAYER].ship.position,
                      Px(SHIP_COLLISION_RADIUS))
  /\ meter.frames = 0

\* the seekers among the hazards of grid o, by their place in the collection
SeekersIn(g, o) == {i \in DOMAIN g.grids[o].hazards : g.grids[o].hazards[i].type = SEEKER}

\* C29: every seeker drone among a grid's hazards has that grid's ship as its target,
\* never the ship that banked and never no target.
C29_SeekersAimed ==
  \A o \in Owners :
    \A i \in SeekersIn(game, o) : game.grids[o].hazards[i].targetShip = o

\* the player banked a BLUE orb: the seeker made of it, aimed at the player's ship by
\* the translator, is among the hazards of bot-1 and aimed at the ship of bot-1
C29_Witness ==
  /\ game.log.deliveries = << [source |-> PLAYER, target |-> "bot-1"] >>
  /\ game.log.bankEvents = << [owner |-> PLAYER, orbs |-> <<BLUE>>] >>
  /\ SeekersIn(game, "bot-1") = {1}
  /\ game.grids["bot-1"].hazards[1].targetShip = "bot-1"
  /\ SeekersIn(game, PLAYER) = {}

\* the multipliers of the active boost zones of grid o that contain its ship
BoostsAround(g, o) ==
  {g.grids[o].boostZones[i].boostMultiplier : i \in
     {j \in DOMAIN g.grids[o].boostZones :
        /\ g.grids[o].boostZones[j].active
        /\ DistLE(g.grids[o].boostZones[j].position, g.grids[o].ship.position,
                  g.grids[o].boostZones[j].radius)}}

\* the greatest number of a non-empty finite set of numbers
Greatest(S) == CHOOSE x \in S : \A y \in S : y <= x

\* C30: when the tick of a grid that is not game over ends, the ship's speed-boost
\* multiplier is the greatest of 1 and the multipliers of the active zones that
\* contain the ship; the multiplier is always one of 1, 1.5 and 2.0, and it is 1
\* whenever no active zone contains the ship.
C30_BoostIsMax ==
  /\ [][\A o \in Owners :
          LiveTick(o) =>
            game'.grids[o].ship.speedBoost = Greatest({1000} \cup BoostsAround(game', o))]_vars
  /\ [](\A o \in Owners : game.grids[o].ship.speedBoost \in {1000, 1500, 2000})
  /\ [](\A o \in Owners :
          BoostsAround(game, o) = {} => game.grids[o].ship.speedBoost = 1000)

\* a grid was updated with its ship inside a 1.5 zone and a 2.0 zone at once: the
\* multiplier is 2.0
C30_Witness ==
  /\ GridJustUpdated
  /\ BoostsAround(game, GridLast) = {1500, 2000}
  /\ game.grids[GridLast].ship.speedBoost = 2000
  /\ Len(game.grids[GridLast].boostZones) = 2
  /\ ~game.grids[GridLast].ship.isDead

\* ---------------------------------------------------- claims: a Nuke's phases
\* C31: a Nuke is in its countdown for its first 300 updates and detonated from the
\* 300th on, never in the countdown again; it detonates exactly when countdownTime
\* reaches 0; in the countdown its radius is 0 and collidesWith is false for every
\* position; after the 120 further updates of the explosion it is inactive, it
\* stays inactive, and collidesWith of an inactive Nuke is false.
C31_NukePhases ==
  /\ [][nuke.detonated => nuke'.detonated]_vars
  /\ [][~nuke.active => ~nuke'.active]_vars
  /\ [](nuke.detonated <=> nuke.countdownTime <= 0)
  /\ [](nuke.detonated <=> clock >= 5 * 60)
  /\ [](~nuke.detonated => (nuke.radius = 0 /\ (hit.called => ~hit.value)))
  /\ [](clock <= 5 * 60 + 2 * 60)
  /\ [](clock = 5 * 60 + 2 * 60 => ~nuke.active)
  /\ [](~nuke.active => (hit.called => ~hit.value))

\* a Nuke has gone through its 300 + 120 updates: it is detonated, fully grown and
\* inactive, and collidesWith was false for a ship 200 pixels from it
C31_Witness ==
  /\ clock = 5 * 60 + 2 * 60
  /\ nuke.detonated /\ ~nuke.active
  /\ nuke.radius = Px(375)
  /\ probe = ProbeAt(WormholeCenter, <<200, 0>>)
  /\ hit = Hit(FALSE)

\* an active hazard of the grid is within 1.5 x the bot's evade distance of the ship
HazardInMargin(g, o) ==
  \E i \in DOMAIN g.grids[o].hazards :
    LET h == g.grids[o].hazards[i]
    IN h.active /\ DistLE(h.position, g.grids[o].ship.position,
                          MulDiv(Px(g.bots[o].config.evadeDistance), 1500, 1000))

\* C32: BotAI.update() of a living bot in EVADE, with no nuke in its grid, leaves it
\* in EVADE when an active hazard is within 1.5 x its evade distance of the ship, and
\* out of EVADE when the nearest active hazard is farther or there is none.
C32_EvadeMargin ==
  [][(/\ pc.at = "bot" /\ Living(game, BotNext)
      /\ game.bots[BotNext].currentState = EVADE
      /\ \A i \in DOMAIN game.grids[BotNext].hazards :
           game.grids[BotNext].hazards[i].type # NUKE) =>
       IF HazardInMargin(game, BotNext)
         THEN game'.bots[BotNext].currentState = EVADE
         ELSE game'.bots[BotNext].currentState # EVADE]_vars

\* the reaction delay of bot o has run out: its update() executes the state's behaviour
Due(g, o) == g.now - g.bots[o].lastDecisionTime >= Ms(g.bots[o].config.reactionDelay)

\* the update of bot o banks: the cargo is drained into one bank event, and the bot
\* is left in COLLECT
Banks(o) ==
  /\ game'.bots[o].currentState = COLLECT
  /\ Ship_isCargoEmpty(game'.grids[o].ship)
  /\ game'.log.bankEvents =
       << [owner |-> o, orbs |-> Ship_clearCargoRet(game.grids[o].ship)] >>

\* the update of bot o does not bank: cargo and state BANK are kept
KeepsBank(o) ==
  /\ game'.bots[o].currentState = BANK
  /\ game'.grids[o].ship.cargo = game.grids[o].ship.cargo
  /\ game'.log.bankEvents = <<>>

MaxShotFrames == 2      \* frames explored with bullets in flight, one physics step each
MaxShotKeys == 2        \* action-key events explored with bullets in flight

\* two places of the player's world, far from the player's ship and from each other
Range == Vec2(Px(300), Px(200))
FarRange == Vec2(Px(900), Px(200))

\* a bullet shot upwards, now at position p with n updates to live
BulletAt(p, n) == [NewBullet(p, 0) EXCEPT !.lifetime = n]

\* the bullets in flight and the player's hazards at the start:
\*   one bullet about to meet two asteroids at once; two bullets about to meet one
\*   asteroid; two bullets about to meet an asteroid each; a bullet in its last
\*   update at an asteroid; a bullet with no asteroid near
ShotScenes ==
  { [bullets |-> <<BulletAt(Range, 30)>>,
     hazards |-> <<AsteroidBy(Range, 0), AsteroidBy(Range, 10)>>],
    [bullets |-> <<BulletAt(Range, 30), BulletAt(Vec2(Range.x + Px(5), Range.y), 18)>>,
     hazards |-> <<AsteroidBy(Range, 0)>>],
    [bullets |-> <<BulletAt(Range, 30), BulletAt(FarRange, 18)>>,
     hazards |-> <<AsteroidBy(Range, 0), AsteroidBy(FarRange, 0)>>],
    [bullets |-> <<BulletAt(Range, 1)>>, hazards |-> <<AsteroidBy(Range, 0)>>],
    [bullets |-> <<BulletAt(Range, 30)>>, hazards |-> <<AsteroidBy(FarRange, 0)>>] }

\* a game in play with the bullets and the player's hazards of a scene; in the grid
\* of bot-1 an asteroid drifts where the first bullet flies
ShotsInPlay(scene) ==
  [NewGame(StartTime, 0) EXCEPT
     !.bullets = scene.bullets,
     !.lastShotTime = StartTime - Ms(SHOOT_COOLDOWN),
     !.grids[PLAYER].hazards = scene.hazards,
     !.grids["bot-1"].hazards = <<AsteroidBy(Range, 0)>>]

InitShots ==
  /\ OldIdle
  /\ \E scene \in ShotScenes : game = ShotsInPlay(scene)
  /\ pc = At("idle", 0)
  /\ meter = [frames |-> MaxShotFrames, keys |-> MaxShotKeys, steps |-> 0]

ShotFrame == Frame(OneStep)
ShotDown == KeyDown(" ")
ShotUp == KeyUp(" ")

NextShots ==
  \/ ShotFrame
  \/ ShotDown
  \/ ShotUp
  \/ HubUpdate
  \/ GridUpdate
  \/ BotUpdate
  \/ UpdateBullets
  \/ RestartCheck

SpecShots == InitShots /\ [][NextShots]_vars

\* the bullets as the collision loop of the next updateBullets finds them
BulletsInLoop == [b \in DOMAIN game.bullets |-> Bullet_update(game.bullets[b])]

\* bullet b of that loop collides with hazard h of the player's grid
Meets(b, h) ==
  Bullet_collidesWith(BulletsInLoop[b], game.grids[PLAYER].hazards[h].position,
                      game.grids[PLAYER].hazards[h].radius)

\* the members of a sequence at the indexes outside the set gone, in order
Rest(seq, gone) ==
  LET RECURSIVE From(_)
      From(i) == IF i > Len(seq) THEN <<>>
                 ELSE IF i \in gone THEN From(i + 1)
                 ELSE <<seq[i]>> \o From(i + 1)
  IN From(1)

\* C34: updateBullets pairs bullets with hazards of the player's grid: each pair is
\* an active bullet and an active hazard that collide, no bullet and no hazard is in
\* two pairs; after the call the paired bullets (and the expired ones) have left the
\* bullets and the paired hazards have left the player's hazards, all others staying
\* in order; no bullet left collides with a hazard left; the hazards of the other
\* grids are unchanged.
C34_BulletForHazard ==
  [][pc.at = "bullets" =>
       LET pairs == game'.log.destroyed
           spent == {pairs[k].bullet : k \in DOMAIN pairs}
           shot == {pairs[k].hazard : k \in DOMAIN pairs}
           expired == {b \in DOMAIN BulletsInLoop : Bullet_isExpired(BulletsInLoop[b])}
       IN /\ \A k \in DOMAIN pairs :
               /\ pairs[k].bullet \in DOMAIN BulletsInLoop
               /\ pairs[k].hazard \in DOMAIN game.grids[PLAYER].hazards
               /\ BulletsInLoop[pairs[k].bullet].active
               /\ game.grids[PLAYER].hazards[pairs[k].hazard].active
               /\ Meets(pairs[k].bullet, pairs[k].hazard)
          /\ Cardinality(spent) = Len(pairs)
          /\ Cardinality(shot) = Len(pairs)
          /\ game'.bullets = Rest(BulletsInLoop, spent \cup expired)
          /\ game'.grids[PLAYER].hazards = Rest(game.grids[PLAYER].hazards, shot)
          /\ \A b \in DOMAIN game'.bullets, h \in DOMAIN game'.grids[PLAYER].hazards :
               ~Bullet_collidesWith(game'.bullets[b],
                                    game'.grids[PLAYER].hazards[h].position,
                                    game'.grids[PLAYER].hazards[h].radius)
          /\ \A o \in Owners \ {PLAYER} : game'.grids[o].hazards = game.grids[o].hazards]_vars

\* one bullet met two asteroids at once: one pair, the bullet is gone and one of the
\* two asteroids is left in the player's grid; the asteroid of bot-1 at the same
\* place is still there
C34_Witness ==
  /\ pc.at = "restart"
  /\ Len(game.log.destroyed) = 1
  /\ game.bullets = <<>>
  /\ Len(game.grids[PLAYER].hazards) = 1
  /\ game.grids[PLAYER].hazards[1].position.x = Range.x
  /\ Len(game.grids["bot-1"].hazards) = 1
  /\ game.killFeed = <<Msg("[DEFENSE] Target destroyed!", "", "", 0)>>

\* ---------------------------------------------------------------------------
\* C35  natural expiry of hazards and boost zones
\* ---------------------------------------------------------------------------

\* the lifetime, in updates, a hazard of a type is built with
LifetimeOf(type) ==
  CASE type = ASTEROID -> 15 * 60
    [] type = SEEKER -> 20 * 60
    [] type = MINE -> 30 * 60
    [] type = NUKE -> 7 * 60

ZoneLifetimeOf(z) == IF z.boostMultiplier = 2000 THEN 15 * 60 ELSE 10 * 60

\* the entries of a collection that have more than one update left
Lasting(entries) == Rest(entries, {i \in DOMAIN entries : entries[i].lifetime <= 1})

\* the same entries in the same order, each one update older
Aged(before, after) ==
  /\ Len(after) = Len(Lasting(before))
  /\ \A k \in DOMAIN after :
       /\ after[k].maxLifetime = Lasting(before)[k].maxLifetime
       /\ after[k].radius = Lasting(before)[k].radius
       /\ after[k].lifetime = Lasting(before)[k].lifetime - 1

\* C35: in a grid that is not game-over every hazard and every boost zone leaves
\* the grid's collections by natural expiry no later than its fixed lifetime in
\* updates after it arrived: a hazard or zone in a grid has between 1 and its
\* fixed lifetime (asteroid 900, seeker 1200, mine 1800, nuke 420, zone 600 or
\* 900) updates left, every update of a grid that is not game-over takes one
\* from each of them, and the ones that had one left are gone after it.
C35_Expiry ==
  /\ [](\A o \in Owners :
          /\ \A i \in DOMAIN game.grids[o].hazards :
               LET h == game.grids[o].hazards[i]
               IN /\ h.maxLifetime = LifetimeOf(h.type)
                  /\ h.lifetime >= 1
                  /\ h.lifetime <= h.maxLifetime
          /\ \A i \in DOMAIN game.grids[o].boostZones :
               LET z == game.grids[o].boostZones[i]
               IN /\ z.maxLifetime = ZoneLifetimeOf(z)
                  /\ z.lifetime >= 1
                  /\ z.lifetime <= z.maxLifetime)
  /\ [][\A o \in Owners :
          LiveTick(o) =>
            /\ Aged(game.grids[o].hazards, game.grids[o].hazards')
            /\ Aged(game.grids[o].boostZones, game.grids[o].boostZones')]_vars

\* a grid after its first update: of two asteroids, seekers, mines, nukes and
\* zones of each kind, the one in its last update is gone and the new one is one
\* update older
C35_Witness ==
  /\ GridJustUpdated
  /\ meter.frames = MaxGridFrames - 1
  /\ LET grid == game.grids[GridLast]
     IN /\ ~grid.gameOver
        /\ Len(grid.hazards) = 4
        /\ \A i \in 1..4 :
             grid.hazards[i].lifetime = LifetimeOf(grid.hazards[i].type) - 1
        /\ {grid.hazards[i].type : i \in 1..4} = {ASTEROID, SEEKER, MINE, NUKE}
        /\ Len(grid.boostZones) = 3
        /\ grid.boostZones[1].lifetime = 599
        /\ grid.boostZones[2].lifetime = 899
        /\ grid.boostZones[3].lifetime = 1

\* ---------------------------------------------------------------------------
\* C36  the payload table for red and blue cargo
\* ---------------------------------------------------------------------------

\* the orbs of a cargo in the order red, blue, green, gold
Sorted(cargo) ==
  LET Run(t) == [i \in 1 .. Count(cargo, t) |-> t]
  IN Run(RED) \o Run(BLUE) \o Run(GREEN) \o Run(GOLD)

\* a cargo of orbs of one colour only
OnlyOf(cargo, t) == cargo # <<>> /\ \A i \in DOMAIN cargo : cargo[i] = t

\* the row of the table for a count of 1, 2, 3, or 4 and more
Row(count, row) == row[Min(count, 4)]

\* C36: for a cargo of a single non-gold colour the payload follows the fixed
\* table: red gives 3, 5, 8 and 12 asteroids at tiers 1, 1.5, 2 and 3 (1, 2, 3,
\* and 4 or more red orbs), blue gives 1, 2, 3 and 5 seeker drones at the same
\* tiers; and the number of hazards of each type depends only on the number of
\* orbs of each colour, not on their order in cargo.
C36_PayloadTable ==
  Translated =>
    LET cargo == attackIn.cargo
        tiers == <<TIER_1, TIER_1_5, TIER_2, TIER_3>>
        same == translateCargoToAttack(Sorted(cargo), attackIn.shipId, attackIn.hub,
                                       attackIn.seed)
    IN /\ OnlyOf(cargo, RED) =>
            /\ attackOut.tier = Row(Len(cargo), tiers)
            /\ Len(attackOut.hazards) = Row(Len(cargo), <<3, 5, 8, 12>>)
            /\ HazardsOf(attackOut, ASTEROID) = Len(attackOut.hazards)
       /\ OnlyOf(cargo, BLUE) =>
            /\ attackOut.tier = Row(Len(cargo), tiers)
            /\ Len(attackOut.hazards) = Row(Len(cargo), <<1, 2, 3, 5>>)
            /\ HazardsOf(attackOut, SEEKER) = Len(attackOut.hazards)
       /\ \A type \in {ASTEROID, SEEKER, MINE, NUKE} :
            HazardsOf(attackOut, type) = HazardsOf(same, type)
       /\ Len(attackOut.boostZones) = Len(same.boostZones)
       /\ attackOut.tier = same.tier

\* two red orbs have given five asteroids
C36_Witness ==
  /\ Translated
  /\ attackIn.cargo = <<RED, RED>>
  /\ Len(attackOut.hazards) = 5

\* ---------------------------------------------------------------------------
\* C37  a restart answers a press made while the game is over
\* ---------------------------------------------------------------------------

\* C37: a restart happens only in response to an action-key press made while the
\* game is over; a press made while the game was still running never causes a
\* restart once the game later becomes over.  Key events arrive between frames,
\* and the check `gameOver && isActionPressed()` that ends a physics step is made
\* in the step in which the game became over, before any key event can arrive:
\* it restarts the game exactly when a press is on record.  So the claim holds
\* exactly when no press is on record at the moment the game becomes over.
C37_NoStalePress ==
  [][(~game.gameOver /\ game'.gameOver) => ~game'.input.actionPressed]_vars

\* ---------------------------------------------------------------------------
\* C38  the winner's ship is alive
\* ---------------------------------------------------------------------------

\* C38: whenever the game's game-over flag is set with a winner named, the
\* winner's ship is alive: after a winner is declared no later step of that
\* round kills the winner's ship.
C38_WinnerAlive ==
  (game.gameOver /\ game.winner # None) => ~game.grids[game.winner].ship.isDead

\* ---------------------------------------------------------------------------
\* C39  the last ship standing ends the game
\* ---------------------------------------------------------------------------

\* C39: whenever at most one ship is alive the game's game-over flag is set.
\* Ships die one at a time, each death is counted when it happens, and the one
\* that leaves a single ship alive names that ship the winner: the number of
\* living ships never drops from two or more to zero without a winner having
\* been declared, also when two or three ships are hit in the same tick.
C39_LastShipEndsGame ==
  /\ [](Cardinality(AliveSet(game)) <= 1 => (game.gameOver /\ game.winner # None))
  /\ [][Cardinality(AliveSet(game')) >= Cardinality(AliveSet(game)) - 1]_vars
  /\ [][(Cardinality(AliveSet(game)) >= 2 /\ Cardinality(AliveSet(game')) = 1) =>
          (game'.gameOver /\ AliveSet(game') = {game'.winner})]_vars

\* the player and bot-1 have been destroyed in the same tick, one after the
\* other, and bot-2 has been named the winner before its own grid is updated
C39_Witness ==
  /\ pc = At("grid", 3)
  /\ meter.frames = MaxRoundFrames - 1
  /\ AliveSet(game) = {"bot-2"}
  /\ game.gameOver
  /\ game.winner = "bot-2"

\* ---------------------------------------------------------------------------
\* C40  no nuke in play
\* ---------------------------------------------------------------------------
MaxSiegeFrames == 2     \* frames explored in a game of gold banking
MaxSiegeKeys == 2       \* banking attempts explored in it

\* the ships in the banking zone at the start
SiegeZones == { {"player"}, {"bot-1", "bot-2"}, {"player", "bot-1", "bot-2"} }

\* the cargo slots of the ships at the start: as much gold as a ship can hold,
\* and less
SiegeCargoes ==
  { CargoOf(<<GOLD, GOLD, GOLD, GOLD>>), CargoOf(<<GOLD, GOLD, GOLD, RED>>),
    CargoOf(<<GOLD, None, GOLD>>), CargoOf(<<GOLD>>) }

InitSiege ==
  /\ OldIdle
  /\ \E zone \in SiegeZones, cargo \in SiegeCargoes : game = BankInPlay(zone, {}, cargo)
  /\ pc = At("idle", 0)
  /\ meter = [frames |-> MaxSiegeFrames, keys |-> MaxSiegeKeys, steps |-> 0]

SiegeFrame == Frame(OneStep)

NextSiege ==
  \/ SiegeFrame
  \/ HubUpdate
  \/ GridUpdate
  \/ BotUpdate
  \/ UpdateBullets
  \/ RestartCheck
  \/ BankAll
  \/ BankSlot

SpecSiege == InitSiege /\ [][NextSiege]_vars

=============================================================================
